---- MODULE Spec2Model ----
(***************************************************************************)
(* Request orchestration layer of the CV parser API                        *)
(* (src/CV and Linkedin Parser/main.py): the sliding-window RateLimiter,   *)
(* the FileCache keyed by the content hash, and the handlers built on      *)
(* them.  Clock readings (time.time()) are modelled as whole seconds that  *)
(* never decrease; two successive readings may be equal.                   *)
(***************************************************************************)
EXTENDS Integers, Sequences, FiniteSets, TLC

\* ------------------------------------------------------------------ bounds
MaxTicks == 2             \* clock advances explored in the limiter model
MaxCacheTicks == 3        \* clock advances explored in the cache model
MaxRequests == 2          \* largest max_requests argument explored
MaxSize == 2              \* largest FileCache max_size explored
MaxAppTicks == 1          \* clock advances explored in the request model
MaxReqs == 2              \* requests that arrive in the request model
MaxInflight == 1          \* requests handled concurrently
MaxAppSize == 1           \* largest max_size explored in the request model
MaxSkills == 11           \* longest list of technical skills explored
MaxEntries == 2           \* most positions of one document explored
MaxConcurrent == 2        \* requests handled concurrently in the interleaving model
MaxConcReqs == 3          \* requests that arrive in the interleaving model

\* ------------------------------------------------------- program constants
BlockDuration == 300      \* "Block IP for 5 minutes"
TimeWindow == 60          \* time_window passed by rate_limit_middleware
MaxBatch == 5             \* "Maximum 5 files allowed per batch"
MaxFileSize == 10485760   \* 10 * 1024 * 1024

Identities == {"ip1", "ip2"}
Clients == {"ip1"}
Hashes == {"h1", "h2", "h3"}
CachedValues == {"r1", "r2"}
None == "None"

VARIABLES
    now,            \* current reading of time.time()
    ticks,          \* number of clock advances so far
    max_requests,   \* is_allowed argument max_requests
    time_window,    \* is_allowed argument time_window
    requests,       \* RateLimiter.requests : ip -> deque of timestamps
    blocked_ips,    \* RateLimiter.blocked_ips : dict ip -> blocked-until
    rl_ret,         \* the last is_allowed call and what it returned
    admitted,       \* per ip, the times of the latest admitted calls
    max_size,       \* FileCache.max_size
    cache,          \* FileCache.cache : dict hash -> result
    access_times,   \* FileCache.access_times : insertion-ordered dict
    cache_op,       \* the last FileCache call, what it returned and evicted,
                    \* and the hash hit by the latest get with no set since
    llm_available,  \* app_state.llm_available
    total_requests,       \* app_state.total_requests
    successful_requests,  \* app_state.successful_requests
    failed_requests,      \* app_state.failed_requests
    arrived,        \* number of requests received so far
    inflight,       \* the requests being handled, each with its position
    heap,           \* the metadata dicts of the cached results
    first,          \* per hash, the payload answered by the request that
                    \* stored the hash in the cache
    results_dir,    \* the files of the Results directory
    temp_files,     \* the files of the temp directory
    bg_tasks,       \* cleanup tasks waiting to run after a response
    backend_calls,  \* number of parser invocations so far
    is_healthy,     \* app_state.is_healthy
    document,       \* what the extractors can find in the document at hand
    processed_data  \* the normalised result of the latest extraction

clockVars == <<now, ticks>>
rlVars == <<max_requests, time_window, requests, blocked_ips, rl_ret, admitted>>
cacheVars == <<max_size, cache, access_times, cache_op>>
counterVars == <<total_requests, successful_requests, failed_requests>>
storeVars == <<heap, first, results_dir, temp_files, backend_calls>>
parserVars == <<document, processed_data>>
lifeVars == <<llm_available, is_healthy>>
appVars == <<llm_available, is_healthy, total_requests, successful_requests,
             failed_requests, arrived, inflight, heap, first, results_dir,
             temp_files, bg_tasks, backend_calls, parserVars>>
vars == <<now, ticks, max_requests, time_window, requests, blocked_ips,
          rl_ret, admitted, max_size, cache, access_times, cache_op,
          llm_available, total_requests, successful_requests,
          failed_requests, arrived, inflight, heap, first, results_dir,
          temp_files, bg_tasks, backend_calls, is_healthy, document,
          processed_data>>

\* ------------------------------------------------------------ RateLimiter

\* the cleaning dropping also the timestamp that is exactly time_window old
CleanOld_inclusive(dq, limit) == SelectSeq(dq, LAMBDA ts : ts > limit)

\* while self.requests[ip] and self.requests[ip][0] < now - time_window:
\*     self.requests[ip].popleft()
RECURSIVE CleanOld(_, _)
CleanOld(dq, limit) ==
    IF dq # <<>> /\ Head(dq) < limit THEN CleanOld(Tail(dq), limit) ELSE dq

\* del self.blocked_ips[ip]
DelKey(d, k) == [x \in (DOMAIN d) \ {k} |-> d[x]]

\* d[k] = v on a dict
PutKey(d, k, v) == [x \in (DOMAIN d) \cup {k} |-> IF x = k THEN v ELSE d[x]]

\* is_allowed with the limit test written as > instead of >=
is_allowed_off_by_one(reqs, blocked, ip, t, maxreq, window) ==
    IF ip \in DOMAIN blocked /\ t < blocked[ip]
    THEN [allowed |-> FALSE, requests |-> reqs, blocked_ips |-> blocked]
    ELSE LET unblocked == DelKey(blocked, ip)
             cleaned == CleanOld(reqs[ip], t - window)
         IN  IF Len(cleaned) > maxreq
             THEN [allowed |-> FALSE,
                   requests |-> [reqs EXCEPT ![ip] = cleaned],
                   blocked_ips |-> PutKey(unblocked, ip, t + BlockDuration)]
             ELSE [allowed |-> TRUE,
                   requests |-> [reqs EXCEPT ![ip] = Append(cleaned, t)],
                   blocked_ips |-> unblocked]

\* is_allowed with the block test written as now <= blocked_ips[ip]
is_allowed_strict_expiry(reqs, blocked, ip, t, maxreq, window) ==
    IF ip \in DOMAIN blocked /\ t <= blocked[ip]
    THEN [allowed |-> FALSE, requests |-> reqs, blocked_ips |-> blocked]
    ELSE LET unblocked == DelKey(blocked, ip)
             cleaned == CleanOld(reqs[ip], t - window)
         IN  IF Len(cleaned) >= maxreq
             THEN [allowed |-> FALSE,
                   requests |-> [reqs EXCEPT ![ip] = cleaned],
                   blocked_ips |-> PutKey(unblocked, ip, t + BlockDuration)]
             ELSE [allowed |-> TRUE,
                   requests |-> [reqs EXCEPT ![ip] = Append(cleaned, t)],
                   blocked_ips |-> unblocked]

\* is_allowed with the window cleaned before the block test
is_allowed_clean_first(reqs, blocked, ip, t, maxreq, window) ==
    LET cleaned == CleanOld(reqs[ip], t - window)
    IN  IF ip \in DOMAIN blocked /\ t < blocked[ip]
        THEN [allowed |-> FALSE,
              requests |-> [reqs EXCEPT ![ip] = cleaned],
              blocked_ips |-> blocked]
        ELSE LET unblocked == DelKey(blocked, ip)
             IN  IF Len(cleaned) >= maxreq
                 THEN [allowed |-> FALSE,
                       requests |-> [reqs EXCEPT ![ip] = cleaned],
                       blocked_ips |-> PutKey(unblocked, ip, t + BlockDuration)]
                 ELSE [allowed |-> TRUE,
                       requests |-> [reqs EXCEPT ![ip] = Append(cleaned, t)],
                       blocked_ips |-> unblocked]

\* is_allowed recording the denied request in the window as well
is_allowed_counts_denied(reqs, blocked, ip, t, maxreq, window) ==
    IF ip \in DOMAIN blocked /\ t < blocked[ip]
    THEN [allowed |-> FALSE, requests |-> reqs, blocked_ips |-> blocked]
    ELSE LET unblocked == DelKey(blocked, ip)
             cleaned == CleanOld(reqs[ip], t - window)
         IN  IF Len(cleaned) >= maxreq
             THEN [allowed |-> FALSE,
                   requests |-> [reqs EXCEPT ![ip] = Append(cleaned, t)],
                   blocked_ips |-> PutKey(unblocked, ip, t + BlockDuration)]
             ELSE [allowed |-> TRUE,
                   requests |-> [reqs EXCEPT ![ip] = Append(cleaned, t)],
                   blocked_ips |-> unblocked]

\* is_allowed with one window shared by all identities
is_allowed_shared_window(reqs, blocked, ip, t, maxreq, window) ==
    IF ip \in DOMAIN blocked /\ t < blocked[ip]
    THEN [allowed |-> FALSE, requests |-> reqs, blocked_ips |-> blocked]
    ELSE LET unblocked == DelKey(blocked, ip)
             cleaned == CleanOld(reqs[ip], t - window)
         IN  IF Len(cleaned) >= maxreq
             THEN [allowed |-> FALSE,
                   requests |-> [x \in DOMAIN reqs |-> cleaned],
                   blocked_ips |-> PutKey(unblocked, ip, t + BlockDuration)]
             ELSE [allowed |-> TRUE,
                   requests |-> [x \in DOMAIN reqs |-> Append(cleaned, t)],
                   blocked_ips |-> unblocked]

\* is_allowed removing every expired block, whichever identity calls
is_allowed_sweeping(reqs, blocked, ip, t, maxreq, window) ==
    IF ip \in DOMAIN blocked /\ t < blocked[ip]
    THEN [allowed |-> FALSE, requests |-> reqs, blocked_ips |-> blocked]
    ELSE LET unblocked == [x \in {y \in DOMAIN blocked : t < blocked[y]} |->
                              blocked[x]]
             cleaned == CleanOld(reqs[ip], t - window)
         IN  IF Len(cleaned) >= maxreq
             THEN [allowed |-> FALSE,
                   requests |-> [reqs EXCEPT ![ip] = cleaned],
                   blocked_ips |-> PutKey(unblocked, ip, t + BlockDuration)]
             ELSE [allowed |-> TRUE,
                   requests |-> [reqs EXCEPT ![ip] = Append(cleaned, t)],
                   blocked_ips |-> unblocked]

\* RateLimiter.is_allowed as a function of the limiter state and the clock
\* reading t; returns the verdict and the new limiter state.
is_allowed(reqs, blocked, ip, t, maxreq, window) ==
    IF ip \in DOMAIN blocked /\ t < blocked[ip]
    THEN [allowed |-> FALSE, requests |-> reqs, blocked_ips |-> blocked]
    ELSE LET unblocked == DelKey(blocked, ip)
             cleaned == CleanOld(reqs[ip], t - window)
         IN  IF Len(cleaned) >= maxreq
             THEN [allowed |-> FALSE,
                   requests |-> [reqs EXCEPT ![ip] = cleaned],
                   blocked_ips |-> PutKey(unblocked, ip, t + BlockDuration)]
             ELSE [allowed |-> TRUE,
                   requests |-> [reqs EXCEPT ![ip] = Append(cleaned, t)],
                   blocked_ips |-> unblocked]

\* -------------------------------------------------------------- FileCache

\* access_times is a dict whose iteration order (insertion order) decides
\* which of several equally old keys min() returns: a sequence of <<k, t>>.
AtKeys(at) == {at[i][1] : i \in DOMAIN at}

AtIndex(at, k) == CHOOSE i \in DOMAIN at : at[i][1] = k

AtTime(at, k) == at[AtIndex(at, k)][2]

\* access_times[k] = t : in place when k is a key, appended otherwise
AtPut(at, k, t) ==
    IF k \in AtKeys(at)
    THEN [i \in DOMAIN at |-> IF at[i][1] = k THEN <<k, t>> ELSE at[i]]
    ELSE Append(at, <<k, t>>)

\* del access_times[k]
AtDel(at, k) == SelectSeq(at, LAMBDA e : e[1] # k)

\* min(self.access_times.keys(), key=lambda k: self.access_times[k]):
\* the first key, in iteration order, whose time is minimal
OldestHash(at) ==
    LET i == CHOOSE i \in DOMAIN at :
                 /\ \A j \in DOMAIN at : at[j][2] >= at[i][2]
                 /\ \A j \in DOMAIN at : j < i => at[j][2] > at[i][2]
    IN  at[i][1]

\* FileCache.get at clock reading t
FileCache_get(c, at, h, t) ==
    IF h \in DOMAIN c
    THEN [hit |-> TRUE, result |-> c[h], cache |-> c,
          access_times |-> AtPut(at, h, t)]
    ELSE [hit |-> FALSE, result |-> None, cache |-> c, access_times |-> at]

\* the fullness test written as > instead of >=
CacheFull_gt(c, size) == Cardinality(DOMAIN c) > size

\* the "Clean cache if full" branch of FileCache.set
CacheFull(c, size) == Cardinality(DOMAIN c) >= size

\* an eviction that removes the entry and keeps its access time
FileCache_set_keep_times(c, at, h, r, size, t) ==
    LET full == CacheFull(c, size)
        oldest_hash == OldestHash(at)
        c1 == IF full THEN DelKey(c, oldest_hash) ELSE c
    IN  [cache |-> PutKey(c1, h, r), access_times |-> AtPut(at, h, t)]

\* FileCache.set at clock reading t
FileCache_set(c, at, h, r, size, t) ==
    LET full == CacheFull(c, size)
        oldest_hash == OldestHash(at)
        c1 == IF full THEN DelKey(c, oldest_hash) ELSE c
        at1 == IF full THEN AtDel(at, oldest_hash) ELSE at
    IN  [cache |-> PutKey(c1, h, r), access_times |-> AtPut(at1, h, t)]

\* ------------------------------------------------------- uploaded files

\* A filename is its stem and its suffix (Path(filename).suffix); the empty
\* filename has neither.
NoName == [stem |-> "", suffix |-> ""]

Filenames == {[stem |-> "a", suffix |-> ".pdf"],
              [stem |-> "b", suffix |-> ".DOCX"],
              [stem |-> "c", suffix |-> ".txt"],
              NoName}

\* str.lower() on the suffixes that occur
Lower(x) == CASE x = ".DOCX" -> ".docx"
              [] x = ".PDF" -> ".pdf"
              [] OTHER -> x

\* validate_file_type
validate_file_type(filename) ==
    IF filename = NoName
    THEN FALSE
    ELSE Lower(filename.suffix) \in {".pdf", ".docx", ".doc"}

\* Byte contents of the uploads: two ordinary documents, an empty upload,
\* one of exactly the size limit and one a byte above it.
Contents == {"doc1", "doc2", "empty", "atlimit", "toobig"}

\* len(file_content)
FileSize(content) == CASE content = "empty" -> 0
                       [] content = "atlimit" -> MaxFileSize
                       [] content = "toobig" -> MaxFileSize + 1
                       [] OTHER -> 1000

\* FileCache.get_file_hash: the SHA-256 digest, a function of the bytes alone
get_file_hash(content) == <<"sha256", content>>

Methods == {"manual", "auto"}

\* what a parser can extract from a document
Payloads == {"cvA", "cvB"}

\* What the collaborators do during one parse_cv call: whether the temp file
\* can be written, what the selected parser does, whether the result file can
\* be written, and whether a statement of the handler that no inner try
\* block encloses raises (unexpected).
Env(save_ok, backend, payload, persist_ok, unexpected) ==
    [save_ok |-> save_ok, backend |-> backend, payload |-> payload,
     persist_ok |-> persist_ok, unexpected |-> unexpected]

Envs ==
    {Env(TRUE, "ok", p, TRUE, FALSE) : p \in Payloads}
    \cup {Env(TRUE, "ok", "cvA", FALSE, FALSE),
          Env(TRUE, "fail", None, TRUE, FALSE),
          Env(FALSE, "ok", "cvA", TRUE, FALSE)}
    \cup {Env(TRUE, "no_text", None, TRUE, FALSE),
          Env(TRUE, "model_error", "cvA", TRUE, FALSE)}
    \cup {Env(TRUE, "ok", "cvA", TRUE, TRUE)}

\* What the selected parser does with the saved file under env:
\*   "ok"          it returns the extracted data env.payload;
\*   "no_text"     the decoder yields no text: cvparser1.parse_cv_file raises
\*                 ValueError, cvparser.process_resume_with_timing returns None;
\*   "fail"        an exception leaves the parser after the extraction began;
\*   "model_error" the call of the language model (or the decoding of its
\*                 answer) raises inside extract_complete_resume_info; the
\*                 manual parser makes no such call.
ParserOutcome(method, env) ==
    IF method = "manual" /\ env.backend = "model_error" THEN "ok" ELSE env.backend

\* CompleteResume(): the resume with every field at its default
EmptyResume == "empty"

\* extract_complete_resume_info returns CompleteResume() when the model call
\* raises; otherwise the parser returns what it extracted
Extracted(method, env) ==
    IF ParserOutcome(method, env) = "model_error" THEN EmptyResume ELSE env.payload

\* the error code of the except branch of the method
ParsingFailed(method) ==
    IF method = "manual" THEN "MANUAL_PARSING_FAILED" ELSE "LLM_PARSING_FAILED"

\* the parser outcomes explored for the files of a batch: the temp and result
\* files are written and the decoder yields text
BatchEnvs ==
    {e \in Envs : /\ e.save_ok /\ e.persist_ok /\ ~e.unexpected
                  /\ e.backend # "no_text"}

\* generate_request_id: the first 8 hex digits of a uuid4 and int(time.time())
Rands == {"u1", "u2"}

generate_request_id(u, t) == <<"req", u, t>>

\* the absent request id and the absent hash, of the shape of the present ones
NoId == <<"req", None, 0>>
NoHash == <<"sha256", None>>

\* --------------------------------------------------------------- parse_cv

\* ProcessingMetadata
Metadata(method, size, t, rid, cached, h) ==
    [kind |-> "processing", processing_method |-> method, file_size |-> size,
     processed_at |-> t, request_id |-> rid, cached |-> cached, file_hash |-> h]

\* the "metadata" entry of the dict a parser returns
ParserMetadata(t) ==
    [kind |-> "parser", processing_method |-> None, file_size |-> 0,
     processed_at |-> t, request_id |-> NoId, cached |-> FALSE, file_hash |-> NoHash]

NoMetadata ==
    [kind |-> None, processing_method |-> None, file_size |-> 0,
     processed_at |-> 0, request_id |-> NoId, cached |-> FALSE, file_hash |-> NoHash]

\* CVParseResponse(success=True, ...): data is the payload together with
\* data["metadata"]
Success(rid, payload, data_meta, meta_ref, metadata) ==
    [status |-> 200, error_code |-> None, request_id |-> rid,
     payload |-> payload, data_meta |-> data_meta, meta_ref |-> meta_ref,
     metadata |-> metadata]

\* raise HTTPException(status_code, detail={"error_code": ..., "request_id": ...})
Failure(status, code, rid) ==
    [status |-> status, error_code |-> code, request_id |-> rid,
     payload |-> None, data_meta |-> NoMetadata, meta_ref |-> 0,
     metadata |-> NoMetadata]

\* temp/{request_id}_{filename}
TempPath(rid, filename) == <<"temp", rid, filename>>

\* the result file named by the random part of the request id alone
ResultPath_short_id(rid, filename) == <<"Results", SubSeq(rid, 1, 2), filename.stem>>

\* Results/{request_id}_{stem}_parsed.json
ResultPath(rid, filename) == <<"Results", rid, filename.stem>>

\* The metadata dict stored with a cache entry is one object: a cache hit
\* updates it in place, and every result that was handed the cached dict
\* sees the update.  heap is the sequence of these dicts in creation order,
\* a cache entry holds the payload and the index of its dict.
CacheEntry(payload, meta_ref) == [payload |-> payload, meta_ref |-> meta_ref]

\* parse_cv without the cache lookup: every request is parsed afresh
parse_cv_no_lookup(st, file, method, save_result, rid, t, env, llm) ==
    LET filename == file.filename
        size == FileSize(file.content)
        temp_file_path == TempPath(rid, filename)
        saved == [st EXCEPT !.temp_files = @ \cup {temp_file_path}]
        cleanup == [saved EXCEPT !.tasks = @ \cup {temp_file_path}]
        file_hash == get_file_hash(file.content)
        called == [cleanup EXCEPT !.backend_calls = @ + 1]
        metadata == Metadata(method, size, t, rid, FALSE, file_hash)
        stored == FileCache_set(st.cache, st.access_times, file_hash,
                      CacheEntry(Extracted(method, env), Len(st.heap) + 1), st.max_size, t)
        record == [request_id |-> rid, filename |-> filename, method |-> method,
                   payload |-> Extracted(method, env), metadata |-> metadata]
        done == [called EXCEPT
                   !.cache = stored.cache,
                   !.access_times = stored.access_times,
                   !.heap = Append(@, metadata),
                   !.first = PutKey(@, file_hash, Extracted(method, env)),
                   !.results_dir = IF save_result /\ env.persist_ok
                                   THEN PutKey(@, ResultPath(rid, filename), record)
                                   ELSE @]
    IN  IF method \notin {"auto", "manual"}
        THEN [st |-> st, ran |-> None,
              resp |-> Failure(400, "INVALID_METHOD", rid)]
        ELSE IF ~validate_file_type(filename)
        THEN [st |-> st, ran |-> None,
              resp |-> Failure(400, "INVALID_FILE_TYPE", rid)]
        ELSE IF ~env.save_ok
        THEN [st |-> st, ran |-> None,
              resp |-> Failure(500, "FILE_SAVE_ERROR", rid)]
        ELSE IF size > MaxFileSize
        THEN [st |-> cleanup, ran |-> None,
              resp |-> Failure(413, "FILE_TOO_LARGE", rid)]
        ELSE IF size = 0
        THEN [st |-> cleanup, ran |-> None,
              resp |-> Failure(400, "EMPTY_FILE", rid)]
        ELSE IF env.unexpected
        THEN [st |-> cleanup, ran |-> None,
              resp |-> Failure(500, "INTERNAL_SERVER_ERROR", rid)]
        ELSE IF method = "auto" /\ ~llm
        THEN [st |-> cleanup, ran |-> None,
              resp |-> Failure(503, "LLM_UNAVAILABLE", rid)]
        ELSE IF ParserOutcome(method, env) = "no_text"
        THEN [st |-> cleanup, ran |-> "no_text",
              resp |-> Failure(500, ParsingFailed(method), rid)]
        ELSE IF ParserOutcome(method, env) = "fail"
        THEN [st |-> called, ran |-> "fail",
              resp |-> Failure(500, ParsingFailed(method), rid)]
        ELSE [st |-> done, ran |-> ParserOutcome(method, env),
              resp |-> Success(rid, Extracted(method, env), ParserMetadata(t),
                               0, metadata)]

\* parse_cv going on to the extraction when the decoder yields no text
parse_cv_extract_empty(st, file, method, save_result, rid, t, env, llm) ==
    LET filename == file.filename
        size == FileSize(file.content)
        temp_file_path == TempPath(rid, filename)
        saved == [st EXCEPT !.temp_files = @ \cup {temp_file_path}]
        cleanup == [saved EXCEPT !.tasks = @ \cup {temp_file_path}]
        file_hash == get_file_hash(file.content)
        looked == FileCache_get(st.cache, st.access_times, file_hash, t)
        cached_result == looked.result
        hit_metadata == [st.heap[cached_result.meta_ref] EXCEPT
                           !.request_id = rid, !.cached = TRUE, !.processed_at = t]
        hit == [cleanup EXCEPT
                  !.heap = [@ EXCEPT ![cached_result.meta_ref] = hit_metadata],
                  !.access_times = looked.access_times]
        called == [cleanup EXCEPT !.backend_calls = @ + 1]
        metadata == Metadata(method, size, t, rid, FALSE, file_hash)
        stored == FileCache_set(st.cache, st.access_times, file_hash,
                      CacheEntry(Extracted(method, env), Len(st.heap) + 1), st.max_size, t)
        record == [request_id |-> rid, filename |-> filename, method |-> method,
                   payload |-> Extracted(method, env), metadata |-> metadata]
        done == [called EXCEPT
                   !.cache = stored.cache,
                   !.access_times = stored.access_times,
                   !.heap = Append(@, metadata),
                   !.first = PutKey(@, file_hash, Extracted(method, env)),
                   !.results_dir = IF save_result /\ env.persist_ok
                                   THEN PutKey(@, ResultPath(rid, filename), record)
                                   ELSE @]
    IN  IF method \notin {"auto", "manual"}
        THEN [st |-> st, ran |-> None,
              resp |-> Failure(400, "INVALID_METHOD", rid)]
        ELSE IF ~validate_file_type(filename)
        THEN [st |-> st, ran |-> None,
              resp |-> Failure(400, "INVALID_FILE_TYPE", rid)]
        ELSE IF ~env.save_ok
        THEN [st |-> st, ran |-> None,
              resp |-> Failure(500, "FILE_SAVE_ERROR", rid)]
        ELSE IF size > MaxFileSize
        THEN [st |-> cleanup, ran |-> None,
              resp |-> Failure(413, "FILE_TOO_LARGE", rid)]
        ELSE IF size = 0
        THEN [st |-> cleanup, ran |-> None,
              resp |-> Failure(400, "EMPTY_FILE", rid)]
        ELSE IF looked.hit
        THEN [st |-> hit, ran |-> None,
              resp |-> Success(rid, cached_result.payload, hit_metadata,
                               cached_result.meta_ref, hit_metadata)]
        ELSE IF env.unexpected
        THEN [st |-> cleanup, ran |-> None,
              resp |-> Failure(500, "INTERNAL_SERVER_ERROR", rid)]
        ELSE IF method = "auto" /\ ~llm
        THEN [st |-> cleanup, ran |-> None,
              resp |-> Failure(503, "LLM_UNAVAILABLE", rid)]
        ELSE IF ParserOutcome(method, env) = "no_text"
        THEN [st |-> done, ran |-> "no_text",
              resp |-> Success(rid, EmptyResume, ParserMetadata(t), 0, metadata)]
        ELSE IF ParserOutcome(method, env) = "fail"
        THEN [st |-> called, ran |-> "fail",
              resp |-> Failure(500, ParsingFailed(method), rid)]
        ELSE [st |-> done, ran |-> ParserOutcome(method, env),
              resp |-> Success(rid, Extracted(method, env), ParserMetadata(t),
                               0, metadata)]

\* parse_cv with the size limit tested with >=
parse_cv_size_inclusive(st, file, method, save_result, rid, t, env, llm) ==
    LET filename == file.filename
        size == FileSize(file.content)
        temp_file_path == TempPath(rid, filename)
        saved == [st EXCEPT !.temp_files = @ \cup {temp_file_path}]
        cleanup == [saved EXCEPT !.tasks = @ \cup {temp_file_path}]
        file_hash == get_file_hash(file.content)
        looked == FileCache_get(st.cache, st.access_times, file_hash, t)
        cached_result == looked.result
        hit_metadata == [st.heap[cached_result.meta_ref] EXCEPT
                           !.request_id = rid, !.cached = TRUE, !.processed_at = t]
        hit == [cleanup EXCEPT
                  !.heap = [@ EXCEPT ![cached_result.meta_ref] = hit_metadata],
                  !.access_times = looked.access_times]
        called == [cleanup EXCEPT !.backend_calls = @ + 1]
        metadata == Metadata(method, size, t, rid, FALSE, file_hash)
        stored == FileCache_set(st.cache, st.access_times, file_hash,
                      CacheEntry(Extracted(method, env), Len(st.heap) + 1), st.max_size, t)
        record == [request_id |-> rid, filename |-> filename, method |-> method,
                   payload |-> Extracted(method, env), metadata |-> metadata]
        done == [called EXCEPT
                   !.cache = stored.cache,
                   !.access_times = stored.access_times,
                   !.heap = Append(@, metadata),
                   !.first = PutKey(@, file_hash, Extracted(method, env)),
                   !.results_dir = IF save_result /\ env.persist_ok
                                   THEN PutKey(@, ResultPath(rid, filename), record)
                                   ELSE @]
    IN  IF method \notin {"auto", "manual"}
        THEN [st |-> st, ran |-> None,
              resp |-> Failure(400, "INVALID_METHOD", rid)]
        ELSE IF ~validate_file_type(filename)
        THEN [st |-> st, ran |-> None,
              resp |-> Failure(400, "INVALID_FILE_TYPE", rid)]
        ELSE IF ~env.save_ok
        THEN [st |-> st, ran |-> None,
              resp |-> Failure(500, "FILE_SAVE_ERROR", rid)]
        ELSE IF size >= MaxFileSize
        THEN [st |-> cleanup, ran |-> None,
              resp |-> Failure(413, "FILE_TOO_LARGE", rid)]
        ELSE IF size = 0
        THEN [st |-> cleanup, ran |-> None,
              resp |-> Failure(400, "EMPTY_FILE", rid)]
        ELSE IF looked.hit
        THEN [st |-> hit, ran |-> None,
              resp |-> Success(rid, cached_result.payload, hit_metadata,
                               cached_result.meta_ref, hit_metadata)]
        ELSE IF env.unexpected
        THEN [st |-> cleanup, ran |-> None,
              resp |-> Failure(500, "INTERNAL_SERVER_ERROR", rid)]
        ELSE IF method = "auto" /\ ~llm
        THEN [st |-> cleanup, ran |-> None,
              resp |-> Failure(503, "LLM_UNAVAILABLE", rid)]
        ELSE IF ParserOutcome(method, env) = "no_text"
        THEN [st |-> cleanup, ran |-> "no_text",
              resp |-> Failure(500, ParsingFailed(method), rid)]
        ELSE IF ParserOutcome(method, env) = "fail"
        THEN [st |-> called, ran |-> "fail",
              resp |-> Failure(500, ParsingFailed(method), rid)]
        ELSE [st |-> done, ran |-> ParserOutcome(method, env),
              resp |-> Success(rid, Extracted(method, env), ParserMetadata(t),
                               0, metadata)]

\* parse_cv without its except Exception branch: the exception leaves the
\* handler and general_exception_handler answers it
parse_cv_escaping(st, file, method, save_result, rid, t, env, llm) ==
    LET filename == file.filename
        size == FileSize(file.content)
        temp_file_path == TempPath(rid, filename)
        saved == [st EXCEPT !.temp_files = @ \cup {temp_file_path}]
        cleanup == [saved EXCEPT !.tasks = @ \cup {temp_file_path}]
        file_hash == get_file_hash(file.content)
        looked == FileCache_get(st.cache, st.access_times, file_hash, t)
        cached_result == looked.result
        hit_metadata == [st.heap[cached_result.meta_ref] EXCEPT
                           !.request_id = rid, !.cached = TRUE, !.processed_at = t]
        hit == [cleanup EXCEPT
                  !.heap = [@ EXCEPT ![cached_result.meta_ref] = hit_metadata],
                  !.access_times = looked.access_times]
        called == [cleanup EXCEPT !.backend_calls = @ + 1]
        metadata == Metadata(method, size, t, rid, FALSE, file_hash)
        stored == FileCache_set(st.cache, st.access_times, file_hash,
                      CacheEntry(Extracted(method, env), Len(st.heap) + 1), st.max_size, t)
        record == [request_id |-> rid, filename |-> filename, method |-> method,
                   payload |-> Extracted(method, env), metadata |-> metadata]
        done == [called EXCEPT
                   !.cache = stored.cache,
                   !.access_times = stored.access_times,
                   !.heap = Append(@, metadata),
                   !.first = PutKey(@, file_hash, Extracted(method, env)),
                   !.results_dir = IF save_result /\ env.persist_ok
                                   THEN PutKey(@, ResultPath(rid, filename), record)
                                   ELSE @]
    IN  IF method \notin {"auto", "manual"}
        THEN [st |-> st, ran |-> None,
              resp |-> Failure(400, "INVALID_METHOD", rid)]
        ELSE IF ~validate_file_type(filename)
        THEN [st |-> st, ran |-> None,
              resp |-> Failure(400, "INVALID_FILE_TYPE", rid)]
        ELSE IF ~env.save_ok
        THEN [st |-> st, ran |-> None,
              resp |-> Failure(500, "FILE_SAVE_ERROR", rid)]
        ELSE IF size > MaxFileSize
        THEN [st |-> cleanup, ran |-> None,
              resp |-> Failure(413, "FILE_TOO_LARGE", rid)]
        ELSE IF size = 0
        THEN [st |-> cleanup, ran |-> None,
              resp |-> Failure(400, "EMPTY_FILE", rid)]
        ELSE IF looked.hit
        THEN [st |-> hit, ran |-> None,
              resp |-> Success(rid, cached_result.payload, hit_metadata,
                               cached_result.meta_ref, hit_metadata)]
        ELSE IF env.unexpected
        THEN [st |-> saved, ran |-> None,
              resp |-> Failure(500, "INTERNAL_SERVER_ERROR", NoId)]
        ELSE IF method = "auto" /\ ~llm
        THEN [st |-> cleanup, ran |-> None,
              resp |-> Failure(503, "LLM_UNAVAILABLE", rid)]
        ELSE IF ParserOutcome(method, env) = "no_text"
        THEN [st |-> cleanup, ran |-> "no_text",
              resp |-> Failure(500, ParsingFailed(method), rid)]
        ELSE IF ParserOutcome(method, env) = "fail"
        THEN [st |-> called, ran |-> "fail",
              resp |-> Failure(500, ParsingFailed(method), rid)]
        ELSE [st |-> done, ran |-> ParserOutcome(method, env),
              resp |-> Success(rid, Extracted(method, env), ParserMetadata(t),
                               0, metadata)]

\* parse_cv: the handler of POST /parse-cv, from the state st of the cache,
\* the Results and temp directories and the background tasks of the request;
\* rid is the generated request id, t the clock reading, env what the
\* collaborators do, llm the availability flag.
parse_cv(st, file, method, save_result, rid, t, env, llm) ==
    LET filename == file.filename
        size == FileSize(file.content)
        temp_file_path == TempPath(rid, filename)
        saved == [st EXCEPT !.temp_files = @ \cup {temp_file_path}]
        cleanup == [saved EXCEPT !.tasks = @ \cup {temp_file_path}]
        file_hash == get_file_hash(file.content)
        looked == FileCache_get(st.cache, st.access_times, file_hash, t)
        cached_result == looked.result
        hit_metadata == [st.heap[cached_result.meta_ref] EXCEPT
                           !.request_id = rid, !.cached = TRUE, !.processed_at = t]
        hit == [cleanup EXCEPT
                  !.heap = [@ EXCEPT ![cached_result.meta_ref] = hit_metadata],
                  !.access_times = looked.access_times]
        called == [cleanup EXCEPT !.backend_calls = @ + 1]
        metadata == Metadata(method, size, t, rid, FALSE, file_hash)
        stored == FileCache_set(st.cache, st.access_times, file_hash,
                      CacheEntry(Extracted(method, env), Len(st.heap) + 1), st.max_size, t)
        record == [request_id |-> rid, filename |-> filename, method |-> method,
                   payload |-> Extracted(method, env), metadata |-> metadata]
        done == [called EXCEPT
                   !.cache = stored.cache,
                   !.access_times = stored.access_times,
                   !.heap = Append(@, metadata),
                   !.first = PutKey(@, file_hash, Extracted(method, env)),
                   !.results_dir = IF save_result /\ env.persist_ok
                                   THEN PutKey(@, ResultPath(rid, filename), record)
                                   ELSE @]
    IN  IF method \notin {"auto", "manual"}
        THEN [st |-> st, ran |-> None,
              resp |-> Failure(400, "INVALID_METHOD", rid)]
        ELSE IF ~validate_file_type(filename)
        THEN [st |-> st, ran |-> None,
              resp |-> Failure(400, "INVALID_FILE_TYPE", rid)]
        ELSE IF ~env.save_ok
        THEN [st |-> st, ran |-> None,
              resp |-> Failure(500, "FILE_SAVE_ERROR", rid)]
        ELSE IF size > MaxFileSize
        THEN [st |-> cleanup, ran |-> None,
              resp |-> Failure(413, "FILE_TOO_LARGE", rid)]
        ELSE IF size = 0
        THEN [st |-> cleanup, ran |-> None,
              resp |-> Failure(400, "EMPTY_FILE", rid)]
        ELSE IF looked.hit
        THEN [st |-> hit, ran |-> None,
              resp |-> Success(rid, cached_result.payload, hit_metadata,
                               cached_result.meta_ref, hit_metadata)]
        ELSE IF env.unexpected
        THEN [st |-> cleanup, ran |-> None,
              resp |-> Failure(500, "INTERNAL_SERVER_ERROR", rid)]
        ELSE IF method = "auto" /\ ~llm
        THEN [st |-> cleanup, ran |-> None,
              resp |-> Failure(503, "LLM_UNAVAILABLE", rid)]
        ELSE IF ParserOutcome(method, env) = "no_text"
        THEN [st |-> cleanup, ran |-> "no_text",
              resp |-> Failure(500, ParsingFailed(method), rid)]
        ELSE IF ParserOutcome(method, env) = "fail"
        THEN [st |-> called, ran |-> "fail",
              resp |-> Failure(500, ParsingFailed(method), rid)]
        ELSE [st |-> done, ran |-> ParserOutcome(method, env),
              resp |-> Success(rid, Extracted(method, env), ParserMetadata(t),
                               0, metadata)]

\* ---------------------------------------------------------- parse_cv_batch

\* the checks of parse_cv_batch that precede the processing loop: the first
\* failing check decides the error; <<>> when all pass
\* the validation loop leaving after its first iteration
ValidateAll_first_only(files, rid) ==
    IF files = <<>>
    THEN <<>>
    ELSE IF Head(files).filename = NoName
    THEN <<Failure(400, "MISSING_FILENAME", rid)>>
    ELSE IF ~validate_file_type(Head(files).filename)
    THEN <<Failure(400, "INVALID_FILE_TYPE", rid)>>
    ELSE <<>>

RECURSIVE ValidateAll(_, _)
ValidateAll(files, rid) ==
    IF files = <<>>
    THEN <<>>
    ELSE IF Head(files).filename = NoName
    THEN <<Failure(400, "MISSING_FILENAME", rid)>>
    ELSE IF ~validate_file_type(Head(files).filename)
    THEN <<Failure(400, "INVALID_FILE_TYPE", rid)>>
    ELSE ValidateAll(Tail(files), rid)

\* the batch size test written against the wrong limit
batch_validate_lenient(files, method, rid) ==
    IF method \notin {"auto", "manual"}
    THEN <<Failure(400, "INVALID_METHOD", rid)>>
    ELSE IF Len(files) > MaxBatch + 1
    THEN <<Failure(400, "BATCH_SIZE_EXCEEDED", rid)>>
    ELSE ValidateAll(files, rid)

\* validation that skips invalid files instead of rejecting the batch
batch_validate_skipping(files, method, rid) ==
    IF method \notin {"auto", "manual"}
    THEN <<Failure(400, "INVALID_METHOD", rid)>>
    ELSE IF Len(files) > MaxBatch
    THEN <<Failure(400, "BATCH_SIZE_EXCEEDED", rid)>>
    ELSE <<>>

batch_validate(files, method, rid) ==
    IF method \notin {"auto", "manual"}
    THEN <<Failure(400, "INVALID_METHOD", rid)>>
    ELSE IF Len(files) > MaxBatch
    THEN <<Failure(400, "BATCH_SIZE_EXCEEDED", rid)>>
    ELSE ValidateAll(files, rid)

\* the entry appended to results for one file, from what parse_cv returned
\* or raised (the HTTPException branch)
BatchEntry(file, resp) ==
    IF resp.status = 200
    THEN [filename |-> file.filename, status |-> "success",
          request_id |-> resp.request_id, payload |-> resp.payload,
          data_meta |-> resp.data_meta, meta_ref |-> resp.meta_ref,
          cached |-> resp.metadata.cached,
          error_code |-> None, http_status |-> 200]
    ELSE [filename |-> file.filename, status |-> "error",
          request_id |-> NoId, payload |-> None,
          data_meta |-> NoMetadata, meta_ref |-> 0, cached |-> FALSE,
          error_code |-> resp.error_code, http_status |-> resp.status]

\* data["metadata"] of an entry when the response is emitted: the dict the
\* entry shares with the cache, as it is then
Emitted(entry, dicts) ==
    IF entry.meta_ref > 0
    THEN [entry EXCEPT !.data_meta = dicts[entry.meta_ref]]
    ELSE entry

\* BatchResponse
BatchResponse(rid, results, successful, failed, total, dicts) ==
    [status |-> 200, error_code |-> None, request_id |-> rid,
     success |-> successful > 0,
     results |-> [k \in DOMAIN results |-> Emitted(results[k], dicts)],
     summary |-> [total_files |-> total, successful |-> successful,
                  failed |-> failed]]

\* -------------------------------------------------------------- get_result

\* The name of a result file, {request_id}_{stem}_parsed.json, as the
\* sequence of the parts that "_" separates, without the fixed ending: the
\* three parts of the request id and the stem.
NameTokens(path) == path[2] \o <<path[3]>>

\* results_dir.glob(f"{request_id}_*_parsed.json") for a request_id given
\* by its parts: the pattern matches a name that goes on with "_" after
\* request_id and has the ending "_parsed.json" after that, so the names of
\* which the parts of request_id are a proper prefix
Matching(dir, request_id) ==
    {path \in DOMAIN dir :
        /\ Len(request_id) < Len(NameTokens(path))
        /\ SubSeq(NameTokens(path), 1, Len(request_id)) = request_id}

\* the 404 of get_result
NotFound(request_id) ==
    [status |-> 404, error_code |-> "RESULT_NOT_FOUND", request_id |-> request_id]

\* the body get_result returns for the file it loaded
Found(request_id, record) ==
    [status |-> 200, error_code |-> None, request_id |-> request_id,
     data |-> record]

\* get_result: the responses it can give for request_id; matching_files[0]
\* is the first match in the order the directory lists its files, which
\* can be any of the matches
get_result(dir, request_id) ==
    IF Matching(dir, request_id) = {}
    THEN {NotFound(request_id)}
    ELSE {Found(request_id, dir[path]) : path \in Matching(dir, request_id)}

\* ------------------------------------------------- the extraction backends

\* What a document lets an extractor find: whether it shows a name, an email
\* address, a phone number and a location, how many technical and soft
\* skills, education entries, positions (described or not) and certificates.
Documents ==
    {d \in [name : BOOLEAN, email : BOOLEAN, phone : BOOLEAN,
            location : BOOLEAN, technical : {0, 1, MaxSkills}, soft : {0, 1},
            education : {0, 1}, experience : 0..MaxEntries,
            described : BOOLEAN, certifications : {0, 1}] :
        d.described => d.experience > 0}

\* a document that shows none of these
BlankDocument ==
    [name |-> FALSE, email |-> FALSE, phone |-> FALSE, location |-> FALSE,
     technical |-> 0, soft |-> 0, education |-> 0, experience |-> 0,
     described |-> FALSE, certifications |-> 0]

\* dict.get(key, default)
DictGet(d, key, default) == IF key \in DOMAIN d THEN d[key] ELSE default

\* the truth value of dict.get(key) for a dict of strings
Truthy(d, key) == key \in DOMAIN d /\ d[key] # ""

\* len(text)
TextLength == 1000

\* cvparser1.extract_contact_info: the keys name and phone are set only when
\* found, email, location and github always
extract_contact_info(d) ==
    [k \in {"email", "location", "github"}
           \cup (IF d.name THEN {"name"} ELSE {})
           \cup (IF d.phone THEN {"phone"} ELSE {}) |->
        CASE k = "name" -> "Ann Lee"
          [] k = "email" -> IF d.email THEN "ann@example.org" ELSE ""
          [] k = "phone" -> "5551234567"
          [] k = "location" -> IF d.location THEN "Dhaka, Bangladesh" ELSE ""
          [] OTHER -> ""]

\* cvparser1.extract_skills
extract_skills(d) ==
    LET technical_skills == [i \in 1..d.technical |-> <<"technical", i>>]
        soft_skills == [i \in 1..d.soft |-> <<"soft", i>>]
    IN  [technical_skills |-> technical_skills,
         soft_skills |-> soft_skills,
         all_skills |-> technical_skills \o soft_skills]

\* cvparser1.extract_education
extract_education(d) ==
    [i \in 1..d.education |->
        [degree |-> "Bsc", field_of_study |-> "Physics",
         institution |-> "Dhaka University", graduation_year |-> "2020"]]

\* cvparser1.extract_experience: the key description is set only when the
\* position has description lines
extract_experience(d) ==
    [i \in 1..d.experience |->
        IF d.described
        THEN [position |-> "Engineer", company |-> "Acme Ltd",
              duration |-> "2021 - present", description |-> "Built things"]
        ELSE [position |-> "Engineer", company |-> "Acme Ltd",
              duration |-> "2021 - present"]]

\* cvparser1.extract_certifications
extract_certifications(d) ==
    [i \in 1..d.certifications |-> [name |-> "Certified Engineer", year |-> ""]]

\* cvparser1.calculate_experience_years, for durations that name no number
\* of years or months
calculate_experience_years(experience) ==
    IF experience = <<>> THEN "0 years" ELSE "Fresh Graduate"

Min(a, b) == IF a <= b THEN a ELSE b

\* the score with an email address counted twice
calculate_ats_score_email_twice(contact_info, skills, education, experience) ==
    LET max_score == 100
        score ==
              (IF Truthy(contact_info, "name") THEN 5 ELSE 0)
            + (IF Truthy(contact_info, "email") THEN 10 ELSE 0)
            + (IF Truthy(contact_info, "phone") THEN 5 ELSE 0)
            + (IF Truthy(contact_info, "location") THEN 5 ELSE 0)
            + (IF skills.technical_skills # <<>> THEN 15 ELSE 0)
            + (IF skills.soft_skills # <<>> THEN 10 ELSE 0)
            + (IF Len(skills.all_skills) > 10 THEN 5 ELSE 0)
            + (IF education # <<>> THEN 20 ELSE 0)
            + (IF experience # <<>> THEN 20 ELSE 0)
            + (IF Len(experience) > 1 THEN 5 ELSE 0)
            + (IF \E i \in DOMAIN experience :
                      "description" \in DOMAIN experience[i] THEN 5 ELSE 0)
    IN  Min(score, max_score)

\* cvparser1.calculate_ats_score
calculate_ats_score(contact_info, skills, education, experience) ==
    LET max_score == 100
        score ==
              (IF Truthy(contact_info, "name") THEN 5 ELSE 0)
            + (IF Truthy(contact_info, "email") THEN 5 ELSE 0)
            + (IF Truthy(contact_info, "phone") THEN 5 ELSE 0)
            + (IF Truthy(contact_info, "location") THEN 5 ELSE 0)
            + (IF skills.technical_skills # <<>> THEN 15 ELSE 0)
            + (IF skills.soft_skills # <<>> THEN 10 ELSE 0)
            + (IF Len(skills.all_skills) > 10 THEN 5 ELSE 0)
            + (IF education # <<>> THEN 20 ELSE 0)
            + (IF experience # <<>> THEN 20 ELSE 0)
            + (IF Len(experience) > 1 THEN 5 ELSE 0)
            + (IF \E i \in DOMAIN experience :
                      "description" \in DOMAIN experience[i] THEN 5 ELSE 0)
    IN  Min(score, max_score)

\* cvparser1.parse_cv_text on the text of document d, read at time t; the
\* bounded documents show no summary and no projects
parse_cv_text(d, t) ==
    LET contact_info == extract_contact_info(d)
        skills == extract_skills(d)
        education == extract_education(d)
        experience == extract_experience(d)
        certifications == extract_certifications(d)
    IN  [contact_information |-> contact_info,
         professional_summary |-> "",
         skills |-> skills,
         education |-> education,
         work_experience |-> experience,
         projects |-> <<>>,
         certifications |-> certifications,
         years_of_experience |-> calculate_experience_years(experience),
         ats_score |-> calculate_ats_score(contact_info, skills, education,
                                           experience),
         metadata |->
             [total_sections |->
                    (IF Truthy(contact_info, "name") THEN 1 ELSE 0)
                  + (IF skills.all_skills # <<>> THEN 1 ELSE 0)
                  + (IF education # <<>> THEN 1 ELSE 0)
                  + (IF experience # <<>> THEN 1 ELSE 0)
                  + (IF certifications # <<>> THEN 1 ELSE 0),
              processed_at |-> t,
              text_length |-> TextLength]]

\* the normalisation passing on the parser's dict without its score
process_manual_parser_result_unscored(data) ==
    [k \in (DOMAIN data) \ {"ats_score"} |-> data[k]]

\* process_manual_parser_result
process_manual_parser_result(data) ==
    [contact_information |-> DictGet(data, "contact_information", <<>>),
     professional_summary |-> DictGet(data, "professional_summary", ""),
     skills |-> DictGet(data, "skills",
                    [technical_skills |-> <<>>, soft_skills |-> <<>>,
                     all_skills |-> <<>>]),
     education |-> DictGet(data, "education", <<>>),
     work_experience |-> DictGet(data, "work_experience", <<>>),
     projects |-> DictGet(data, "projects", <<>>),
     certifications |-> DictGet(data, "certifications", <<>>),
     years_of_experience |-> DictGet(data, "years_of_experience", ""),
     ats_score |-> DictGet(data, "ats_score", 0),
     metadata |-> DictGet(data, "metadata", <<>>)]

\* The CompleteResume the language model fills in for document d: an
\* Optional field it does not find is None, a list it does not find is empty.
CompleteResume(d) ==
    [name |-> IF d.name THEN "Ann Lee" ELSE None,
     email |-> IF d.email THEN "ann@example.org" ELSE None,
     phone |-> IF d.phone THEN "5551234567" ELSE None,
     location |-> IF d.location THEN "Dhaka, Bangladesh" ELSE None,
     summary |-> None,
     technical_skills |-> [i \in 1..d.technical |-> <<"technical", i>>],
     soft_skills |-> [i \in 1..d.soft |-> <<"soft", i>>],
     education |->
         [i \in 1..d.education |->
             [institution |-> "Dhaka University", degree |-> "BSc",
              field_of_study |-> "Physics", graduation_year |-> "2020"]],
     work_experience |->
         [i \in 1..d.experience |->
             [company |-> "Acme Ltd", position |-> "Engineer",
              duration |-> "2021 - present",
              description |-> IF d.described THEN "Built things" ELSE None]],
     projects |-> <<>>,
     years_of_experience |-> None,
     certifications |-> [i \in 1..d.certifications |-> "Certified Engineer"]]

\* the timing_info of cvparser.process_resume_with_timing
TimingInfo ==
    [read_time |-> 0, llm_time |-> 0, save_time |-> 0, total_time |-> 0,
     text_length |-> TextLength]

\* x or ""
OrEmpty(x) == IF x = None THEN "" ELSE x

\* process_llm_parser_result at time t
process_llm_parser_result(resume, timing_info, t) ==
    [contact_information |->
         [name |-> resume.name, email |-> resume.email,
          phone |-> resume.phone, location |-> resume.location,
          linkedin |-> "", github |-> ""],
     professional_summary |-> OrEmpty(resume.summary),
     skills |->
         [technical_skills |-> resume.technical_skills,
          soft_skills |-> resume.soft_skills,
          all_skills |-> resume.technical_skills \o resume.soft_skills],
     education |->
         [i \in DOMAIN resume.education |->
             [institution |-> resume.education[i].institution,
              degree |-> resume.education[i].degree,
              field_of_study |-> resume.education[i].field_of_study,
              graduation_year |-> resume.education[i].graduation_year]],
     work_experience |->
         [i \in DOMAIN resume.work_experience |->
             [company |-> resume.work_experience[i].company,
              position |-> resume.work_experience[i].position,
              duration |-> resume.work_experience[i].duration,
              description |-> resume.work_experience[i].description]],
     projects |->
         [i \in DOMAIN resume.projects |->
             [name |-> resume.projects[i].name,
              description |-> resume.projects[i].description,
              technologies |-> resume.projects[i].technologies,
              duration |-> resume.projects[i].duration]],
     certifications |-> resume.certifications,
     years_of_experience |-> OrEmpty(resume.years_of_experience),
     ats_score |-> 0,
     metadata |->
         [total_sections |->
                (IF resume.name # None THEN 1 ELSE 0)
              + (IF resume.email # None THEN 1 ELSE 0)
              + (IF resume.technical_skills # <<>> THEN 1 ELSE 0)
              + (IF resume.education # <<>> THEN 1 ELSE 0)
              + (IF resume.work_experience # <<>> THEN 1 ELSE 0),
          processed_at |-> t,
          text_length |-> DictGet(timing_info, "text_length", 0)]]

\* no extraction was made yet
NoData == [method |-> None, data |-> <<>>]

\* ------------------------------------------------------------------ clock

TickBy(d, bound) ==
    /\ ticks < bound
    /\ now' = now + d
    /\ ticks' = ticks + 1

\* ------------------------------------------------- RateLimiter in isolation

\* the response of rate_limit_middleware to a request it denies
RateLimited ==
    [status |-> 429, error_code |-> "RATE_LIMIT_EXCEEDED",
     request_id |-> "rate_limited"]

\* the middleware has returned no response of its own
NoReply == [status |-> 0, error_code |-> None, request_id |-> None]

InitClock == now = 0 /\ ticks = 0

InitLimiter ==
    /\ requests = [ip \in Identities |-> <<>>]
    /\ blocked_ips = <<>>
    /\ rl_ret = [ip |-> None, allowed |-> FALSE, path |-> None,
                 response |-> NoReply]
    /\ admitted = [ip \in Identities |-> <<>>]

InitCache ==
    /\ cache = <<>>
    /\ access_times = <<>>
    /\ cache_op = [op |-> None, hash |-> None, result |-> None,
                   present |-> FALSE, evicted |-> None, refreshed |-> None]

\* a slot that holds no request
Idle ==
    [kind |-> None, ip |-> None, stage |-> None, files |-> <<>>,
     method |-> None, save_result |-> FALSE, i |-> 0, results |-> <<>>,
     successful |-> 0, failed |-> 0, rid |-> NoId,
     resp |-> Failure(0, None, NoId), tasks |-> {}, ran |-> None,
     path |-> None]

Slots == 1..MaxInflight

InitAppWith(slots) ==
    /\ total_requests = 0
    /\ successful_requests = 0
    /\ failed_requests = 0
    /\ arrived = 0
    /\ inflight = [s \in slots |-> Idle]
    /\ heap = <<>>
    /\ first = <<>>
    /\ results_dir = <<>>
    /\ temp_files = {}
    /\ bg_tasks = {}
    /\ backend_calls = 0
    /\ is_healthy = FALSE

InitApp == InitAppWith(Slots)

\* no document is at hand
InitParsed ==
    /\ document = BlankDocument
    /\ processed_data = NoData

InitRL ==
    /\ InitApp
    /\ InitParsed
    /\ llm_available = FALSE
    /\ InitClock
    /\ max_requests \in 1..MaxRequests
    /\ time_window = TimeWindow
    /\ InitLimiter
    /\ max_size = 1
    /\ InitCache

RLTick ==
    /\ \E d \in {1, time_window, BlockDuration - 1, BlockDuration} :
          TickBy(d, MaxTicks)
    /\ UNCHANGED <<rlVars, cacheVars, appVars>>

\* the last n elements of a sequence
LastN(s, n) == IF Len(s) <= n THEN s ELSE SubSeq(s, Len(s) - n + 1, Len(s))

IsAllowed(ip) ==
    LET r == is_allowed(requests, blocked_ips, ip, now, max_requests, time_window)
    IN  /\ requests' = r.requests
        /\ blocked_ips' = r.blocked_ips
        /\ rl_ret' = [ip |-> ip, allowed |-> r.allowed,
                       path |-> IF ip \in DOMAIN blocked_ips /\ now < blocked_ips[ip]
                                THEN "blocked"
                                ELSE IF ip \in DOMAIN blocked_ips
                                     THEN "expired" ELSE "open",
                       response |-> NoReply]
        /\ admitted' = IF r.allowed
                       THEN [admitted EXCEPT ![ip] = LastN(Append(@, now), max_requests)]
                       ELSE admitted
        /\ UNCHANGED <<max_requests, time_window, clockVars, cacheVars, appVars>>

NextRL == RLTick \/ \E ip \in Identities : IsAllowed(ip)

SpecRL == InitRL /\ [][NextRL]_vars

\* --------------------------------------------------- FileCache in isolation

InitFC ==
    /\ InitApp
    /\ InitParsed
    /\ llm_available = FALSE
    /\ InitClock
    /\ max_requests = 1
    /\ time_window = TimeWindow
    /\ InitLimiter
    /\ max_size \in 1..MaxSize
    /\ InitCache

CacheTick ==
    /\ TickBy(1, MaxCacheTicks)
    /\ UNCHANGED <<rlVars, cacheVars, appVars>>

Get(h) ==
    LET r == FileCache_get(cache, access_times, h, now)
    IN  /\ cache' = r.cache
        /\ access_times' = r.access_times
        /\ cache_op' = [op |-> "get", hash |-> h, result |-> r.result,
                        present |-> h \in DOMAIN cache, evicted |-> None,
                        refreshed |-> IF h \in DOMAIN cache
                                      THEN h ELSE cache_op.refreshed]
        /\ UNCHANGED <<max_size, clockVars, rlVars, appVars>>

Set(h, res) ==
    LET r == FileCache_set(cache, access_times, h, res, max_size, now)
    IN  /\ cache' = r.cache
        /\ access_times' = r.access_times
        /\ cache_op' = [op |-> "set", hash |-> h, result |-> res,
                        present |-> h \in DOMAIN cache,
                        evicted |-> IF CacheFull(cache, max_size)
                                    THEN OldestHash(access_times) ELSE None,
                        refreshed |-> None]
        /\ UNCHANGED <<max_size, clockVars, rlVars, appVars>>

NextFC ==
    \/ CacheTick
    \/ \E h \in Hashes : Get(h)
    \/ \E h \in Hashes, res \in CachedValues : Set(h, res)

SpecFC == InitFC /\ [][NextFC]_vars

\* ------------------------------------------------------------ the service

Upload(stem, suffix, content) ==
    [filename |-> [stem |-> stem, suffix |-> suffix], content |-> content]

ValidA == Upload("a", ".pdf", "doc1")
ValidB == Upload("b", ".DOCX", "doc1")
ValidC == Upload("a", ".pdf", "doc2")
BadType == Upload("c", ".txt", "doc1")
Unnamed == Upload("", "", "doc1")

\* the uploads of single parse requests
Uploads == {ValidA, ValidB, ValidC, BadType, Unnamed,
            Upload("a", ".pdf", "empty"), Upload("a", ".pdf", "atlimit"),
            Upload("a", ".pdf", "toobig")}

\* the file lists of batch requests: one or two files, three valid and two
\* unsupported ones, and one file too many
Batches ==
    {<<ValidA>>, <<BadType>>, <<ValidA, ValidB>>,
     <<ValidA, BadType>>, <<BadType, ValidB>>, <<ValidA, Unnamed>>}
    \cup {<<ValidA, BadType, ValidC, BadType, ValidB>>,
          <<ValidA, ValidB, ValidC, BadType, BadType>>,
          <<ValidA, ValidB, ValidC, ValidA, ValidB, ValidC>>}

\* the state parse_cv works on, for a request whose background tasks are tasks
AppState(tasks) ==
    [cache |-> cache, access_times |-> access_times, max_size |-> max_size,
     heap |-> heap, first |-> first, results_dir |-> results_dir,
     temp_files |-> temp_files, tasks |-> tasks, backend_calls |-> backend_calls]

Commit(st) ==
    /\ cache' = st.cache
    /\ access_times' = st.access_times
    /\ heap' = st.heap
    /\ first' = st.first
    /\ results_dir' = st.results_dir
    /\ temp_files' = st.temp_files
    /\ backend_calls' = st.backend_calls

FreeSlots == {s \in DOMAIN inflight : inflight[s] = Idle}

\* the middleware counting the denial and calling the handler all the same
ArriveWithin_forwarding(ip, rq, bound) ==
    /\ is_healthy
    /\ arrived < bound
    /\ arrived' = arrived + 1
    /\ LET r == is_allowed(requests, blocked_ips, ip, now, max_requests, time_window)
           s == CHOOSE x \in FreeSlots : \A y \in FreeSlots : x <= y
       IN  /\ FreeSlots # {}
           /\ requests' = r.requests
           /\ blocked_ips' = r.blocked_ips
           /\ rl_ret' = [ip |-> ip, allowed |-> r.allowed,
                         path |-> IF ip \in DOMAIN blocked_ips /\ now < blocked_ips[ip]
                                  THEN "blocked"
                                  ELSE IF ip \in DOMAIN blocked_ips
                                       THEN "expired" ELSE "open",
                         response |-> IF r.allowed THEN NoReply ELSE RateLimited]
           /\ admitted' = IF r.allowed
                          THEN [admitted EXCEPT ![ip] = Append(@, now)]
                          ELSE admitted
           /\ IF r.allowed
              THEN /\ total_requests' = total_requests + 1
                   /\ inflight' = [inflight EXCEPT ![s] = [rq EXCEPT !.ip = ip]]
                   /\ UNCHANGED failed_requests
              ELSE /\ failed_requests' = failed_requests + 1
                   /\ inflight' = [inflight EXCEPT ![s] = [rq EXCEPT !.ip = ip]]
                   /\ UNCHANGED total_requests
    /\ UNCHANGED <<clockVars, max_requests, time_window, cacheVars, lifeVars,
                   successful_requests, storeVars, bg_tasks, parserVars>>

\* rate_limit_middleware up to call_next, for a request rq of identity ip,
\* the bound-th request at most
ArriveWithin(ip, rq, bound) ==
    /\ is_healthy
    /\ arrived < bound
    /\ arrived' = arrived + 1
    /\ LET r == is_allowed(requests, blocked_ips, ip, now, max_requests, time_window)
           s == CHOOSE x \in FreeSlots : \A y \in FreeSlots : x <= y
       IN  /\ r.allowed => FreeSlots # {}
           /\ requests' = r.requests
           /\ blocked_ips' = r.blocked_ips
           /\ rl_ret' = [ip |-> ip, allowed |-> r.allowed,
                         path |-> IF ip \in DOMAIN blocked_ips /\ now < blocked_ips[ip]
                                  THEN "blocked"
                                  ELSE IF ip \in DOMAIN blocked_ips
                                       THEN "expired" ELSE "open",
                         response |-> IF r.allowed THEN NoReply ELSE RateLimited]
           /\ admitted' = IF r.allowed
                          THEN [admitted EXCEPT ![ip] = Append(@, now)]
                          ELSE admitted
           /\ IF r.allowed
              THEN /\ total_requests' = total_requests + 1
                   /\ inflight' = [inflight EXCEPT ![s] = [rq EXCEPT !.ip = ip]]
                   /\ UNCHANGED failed_requests
              ELSE /\ failed_requests' = failed_requests + 1
                   /\ UNCHANGED <<total_requests, inflight>>
    /\ UNCHANGED <<clockVars, max_requests, time_window, cacheVars, lifeVars,
                   successful_requests, storeVars, bg_tasks, parserVars>>

Arrive(ip, rq) == ArriveWithin(ip, rq, MaxReqs)

\* POST /parse-cv arrives
ArriveParse(ip, file, method, save_result) ==
    Arrive(ip, [Idle EXCEPT !.kind = "parse", !.stage = "handler",
                            !.files = <<file>>, !.method = method,
                            !.save_result = save_result])

\* POST /parse-cv-batch arrives
ArriveBatch(ip, files, method) ==
    Arrive(ip, [Idle EXCEPT !.kind = "batch", !.stage = "handler",
                            !.files = files, !.method = method,
                            !.save_result = TRUE])

\* the handler clearing the availability flag when the model-backed parser
\* fails
HandleParse_marks_unavailable(s) ==
    /\ inflight[s].kind = "parse"
    /\ inflight[s].stage = "handler"
    /\ \E u \in Rands, env \in Envs :
          LET rq == inflight[s]
              r == parse_cv(AppState({}), rq.files[1], rq.method, rq.save_result,
                            generate_request_id(u, now), now, env, llm_available)
          IN  /\ Commit(r.st)
              /\ llm_available' = IF r.resp.error_code = "LLM_PARSING_FAILED"
                                  THEN FALSE ELSE llm_available
              /\ inflight' = [inflight EXCEPT ![s].stage = "post",
                                              ![s].rid = r.resp.request_id,
                                              ![s].resp = r.resp,
                                              ![s].tasks = r.st.tasks,
                                              ![s].ran = r.ran]
    /\ UNCHANGED <<clockVars, rlVars, max_size, cache_op, is_healthy,
                   counterVars, arrived, bg_tasks, parserVars>>

\* the handler parse_cv runs for the request in slot s
HandleParse(s) ==
    /\ inflight[s].kind = "parse"
    /\ inflight[s].stage = "handler"
    /\ \E u \in Rands, env \in Envs :
          LET rq == inflight[s]
              r == parse_cv(AppState({}), rq.files[1], rq.method, rq.save_result,
                            generate_request_id(u, now), now, env, llm_available)
          IN  /\ Commit(r.st)
              /\ inflight' = [inflight EXCEPT ![s].stage = "post",
                                              ![s].rid = r.resp.request_id,
                                              ![s].resp = r.resp,
                                              ![s].tasks = r.st.tasks,
                                              ![s].ran = r.ran]
    /\ UNCHANGED <<clockVars, rlVars, max_size, cache_op, lifeVars,
                   counterVars, arrived, bg_tasks, parserVars>>

\* parse_cv_batch up to the processing loop
BatchStart(s) ==
    /\ inflight[s].kind = "batch"
    /\ inflight[s].stage = "handler"
    /\ \E u \in Rands :
          LET rq == inflight[s]
              rid == generate_request_id(u, now)
              rejected == batch_validate(rq.files, rq.method, rid)
          IN  inflight' = IF rejected # <<>>
                          THEN [inflight EXCEPT ![s].stage = "post",
                                                ![s].rid = rid,
                                                ![s].resp = rejected[1]]
                          ELSE [inflight EXCEPT ![s].stage = "loop",
                                                ![s].rid = rid,
                                                ![s].i = 1]
    /\ UNCHANGED <<clockVars, rlVars, cacheVars, lifeVars, counterVars,
                   arrived, storeVars, bg_tasks, parserVars>>

\* what one iteration of the loop gets for its file: what parse_cv returns
\* or raises, or the error of the except Exception branch when file.seek(0)
\* raises
process_file(st, file, method, rid, t, env, llm, seek_ok) ==
    IF seek_ok
    THEN parse_cv(st, file, method, TRUE, rid, t, env, llm)
    ELSE [st |-> st, ran |-> None,
          resp |-> Failure(500, "INTERNAL_SERVER_ERROR", NoId)]

\* the loop counting only some of the failures
BatchFile_uncounted(s) ==
    /\ inflight[s].kind = "batch"
    /\ inflight[s].stage = "loop"
    /\ \E u \in Rands, env \in BatchEnvs, seek_ok \in BOOLEAN :
          LET rq == inflight[s]
              file == rq.files[rq.i]
              r == process_file(AppState(rq.tasks), file, rq.method,
                               generate_request_id(u, now), now, env,
                               llm_available, seek_ok)
              results == Append(rq.results, BatchEntry(file, r.resp))
              successful == rq.successful + (IF r.resp.status = 200 THEN 1 ELSE 0)
              failed == rq.failed + (IF r.resp.status \in {200, 500} THEN 0 ELSE 1)
              looped == [rq EXCEPT !.results = results,
                                   !.successful = successful,
                                   !.failed = failed,
                                   !.tasks = r.st.tasks]
          IN  /\ Commit(r.st)
              /\ inflight' =
                    [inflight EXCEPT ![s] =
                        IF rq.i = Len(rq.files)
                        THEN [looped EXCEPT
                                !.stage = "post",
                                !.resp = BatchResponse(rq.rid, results, successful,
                                             failed, Len(rq.files), r.st.heap)]
                        ELSE [looped EXCEPT !.i = rq.i + 1]]
    /\ UNCHANGED <<clockVars, rlVars, max_size, cache_op, lifeVars,
                   counterVars, arrived, bg_tasks, parserVars>>

\* the loop left at the first failing file
BatchFile_abort(s) ==
    /\ inflight[s].kind = "batch"
    /\ inflight[s].stage = "loop"
    /\ \E u \in Rands, env \in BatchEnvs, seek_ok \in BOOLEAN :
          LET rq == inflight[s]
              file == rq.files[rq.i]
              r == process_file(AppState(rq.tasks), file, rq.method,
                               generate_request_id(u, now), now, env,
                               llm_available, seek_ok)
              results == Append(rq.results, BatchEntry(file, r.resp))
              successful == rq.successful + (IF r.resp.status = 200 THEN 1 ELSE 0)
              failed == rq.failed + (IF r.resp.status = 200 THEN 0 ELSE 1)
              looped == [rq EXCEPT !.results = results,
                                   !.successful = successful,
                                   !.failed = failed,
                                   !.tasks = r.st.tasks]
          IN  /\ Commit(r.st)
              /\ inflight' =
                    [inflight EXCEPT ![s] =
                        IF rq.i = Len(rq.files) \/ r.resp.status # 200
                        THEN [looped EXCEPT
                                !.stage = "post",
                                !.resp = BatchResponse(rq.rid, results, successful,
                                             failed, Len(rq.files), r.st.heap)]
                        ELSE [looped EXCEPT !.i = rq.i + 1]]
    /\ UNCHANGED <<clockVars, rlVars, max_size, cache_op, lifeVars,
                   counterVars, arrived, bg_tasks, parserVars>>

\* the loop putting each record in front of the earlier ones
LoopStep_prepend(s, rands, envs, seeks) ==
    /\ inflight[s].kind = "batch"
    /\ inflight[s].stage = "loop"
    /\ \E u \in rands, env \in envs, seek_ok \in seeks :
          LET rq == inflight[s]
              file == rq.files[rq.i]
              r == process_file(AppState(rq.tasks), file, rq.method,
                               generate_request_id(u, now), now, env,
                               llm_available, seek_ok)
              results == <<BatchEntry(file, r.resp)>> \o rq.results
              successful == rq.successful + (IF r.resp.status = 200 THEN 1 ELSE 0)
              failed == rq.failed + (IF r.resp.status = 200 THEN 0 ELSE 1)
              looped == [rq EXCEPT !.results = results,
                                   !.successful = successful,
                                   !.failed = failed,
                                   !.tasks = r.st.tasks]
          IN  /\ Commit(r.st)
              /\ inflight' =
                    [inflight EXCEPT ![s] =
                        IF rq.i = Len(rq.files)
                        THEN [looped EXCEPT
                                !.stage = "post",
                                !.resp = BatchResponse(rq.rid, results, successful,
                                             failed, Len(rq.files), r.st.heap)]
                        ELSE [looped EXCEPT !.i = rq.i + 1]]
    /\ UNCHANGED <<clockVars, rlVars, max_size, cache_op, lifeVars,
                   counterVars, arrived, bg_tasks, parserVars>>

\* one iteration of the processing loop of parse_cv_batch, and the response
\* after the last one, for the uuid4 values, the collaborators' behaviours
\* and the outcomes of file.seek given
LoopStep(s, rands, envs, seeks) ==
    /\ inflight[s].kind = "batch"
    /\ inflight[s].stage = "loop"
    /\ \E u \in rands, env \in envs, seek_ok \in seeks :
          LET rq == inflight[s]
              file == rq.files[rq.i]
              r == process_file(AppState(rq.tasks), file, rq.method,
                               generate_request_id(u, now), now, env,
                               llm_available, seek_ok)
              results == Append(rq.results, BatchEntry(file, r.resp))
              successful == rq.successful + (IF r.resp.status = 200 THEN 1 ELSE 0)
              failed == rq.failed + (IF r.resp.status = 200 THEN 0 ELSE 1)
              looped == [rq EXCEPT !.results = results,
                                   !.successful = successful,
                                   !.failed = failed,
                                   !.tasks = r.st.tasks]
          IN  /\ Commit(r.st)
              /\ inflight' =
                    [inflight EXCEPT ![s] =
                        IF rq.i = Len(rq.files)
                        THEN [looped EXCEPT
                                !.stage = "post",
                                !.resp = BatchResponse(rq.rid, results, successful,
                                             failed, Len(rq.files), r.st.heap)]
                        ELSE [looped EXCEPT !.i = rq.i + 1]]
    /\ UNCHANGED <<clockVars, rlVars, max_size, cache_op, lifeVars,
                   counterVars, arrived, bg_tasks, parserVars>>

BatchFile(s) == LoopStep(s, Rands, BatchEnvs, BOOLEAN)

\* rate_limit_middleware after call_next: the counters; the background tasks
\* of the request run only when the handler returned a response
Finish(s) ==
    /\ inflight[s].stage = "post"
    /\ IF inflight[s].resp.status < 400
       THEN /\ successful_requests' = successful_requests + 1
            /\ UNCHANGED failed_requests
       ELSE /\ failed_requests' = failed_requests + 1
            /\ UNCHANGED successful_requests
    /\ bg_tasks' = IF inflight[s].resp.status = 200
                   THEN bg_tasks \cup inflight[s].tasks
                   ELSE bg_tasks
    /\ inflight' = [inflight EXCEPT ![s] = Idle]
    /\ UNCHANGED <<clockVars, rlVars, cacheVars, lifeVars, total_requests,
                   arrived, storeVars, parserVars>>

\* cleanup_temp_files, run as a background task
Cleanup(path) ==
    /\ path \in bg_tasks
    /\ bg_tasks' = bg_tasks \ {path}
    /\ temp_files' = temp_files \ {path}
    /\ UNCHANGED <<clockVars, rlVars, cacheVars, lifeVars, counterVars,
                   arrived, inflight, heap, first, results_dir, backend_calls,
                   parserVars>>

AppTick ==
    /\ TickBy(1, MaxAppTicks)
    /\ UNCHANGED <<rlVars, cacheVars, appVars>>

\* lifespan up to its yield: the probe of the language model sets
\* llm_available, then is_healthy is set; the server accepts requests after
Startup ==
    /\ ~is_healthy
    /\ llm_available' \in BOOLEAN
    /\ is_healthy' = TRUE
    /\ UNCHANGED <<clockVars, rlVars, cacheVars, counterVars, arrived,
                   inflight, storeVars, bg_tasks, parserVars>>

Init ==
    /\ InitApp
    /\ InitParsed
    /\ llm_available = FALSE
    /\ InitClock
    /\ max_requests = MaxRequests
    /\ time_window = TimeWindow
    /\ InitLimiter
    /\ max_size \in 1..MaxAppSize
    /\ InitCache

\* the service receiving single-file requests
Next ==
    \/ Startup
    \/ AppTick
    \/ \E ip \in Clients, file \in Uploads, method \in Methods,
          save_result \in BOOLEAN : ArriveParse(ip, file, method, save_result)
    \/ \E s \in Slots : HandleParse(s)
    \/ \E s \in Slots : Finish(s)
    \/ \E path \in bg_tasks : Cleanup(path)

Spec == Init /\ [][Next]_vars

\* the request ids asked for: the ids the service generates and what they
\* begin with
Lookups ==
    {<<"req">>} \cup {<<"req", u>> : u \in Rands}
    \cup {generate_request_id(u, t) : u \in Rands, t \in 0..MaxAppTicks}

\* GET /results/{request_id} arrives
ArriveResult(ip, request_id) ==
    Arrive(ip, [Idle EXCEPT !.kind = "result", !.stage = "handler",
                            !.rid = request_id])

\* the handler get_result runs for the request in slot s
HandleResult(s) ==
    /\ inflight[s].kind = "result"
    /\ inflight[s].stage = "handler"
    /\ \E resp \in get_result(results_dir, inflight[s].rid) :
          inflight' = [inflight EXCEPT ![s].stage = "post", ![s].resp = resp]
    /\ UNCHANGED <<clockVars, rlVars, cacheVars, lifeVars, counterVars,
                   arrived, storeVars, bg_tasks, parserVars>>

\* the uploads of the requests whose results are asked for
SavedUploads == {ValidA, ValidB, ValidC}

\* the service receiving single-file requests and requests for their results
NextResults ==
    \/ Startup
    \/ AppTick
    \/ \E ip \in Clients, file \in SavedUploads, method \in Methods,
          save_result \in BOOLEAN : ArriveParse(ip, file, method, save_result)
    \/ \E ip \in Clients, request_id \in Lookups : ArriveResult(ip, request_id)
    \/ \E s \in Slots : HandleParse(s)
    \/ \E s \in Slots : HandleResult(s)
    \/ \E s \in Slots : Finish(s)
    \/ \E path \in bg_tasks : Cleanup(path)

SpecResults == Init /\ [][NextResults]_vars

\* the service receiving batch requests
NextBatch ==
    \/ Startup
    \/ AppTick
    \/ \E ip \in Clients, files \in Batches, method \in Methods :
          ArriveBatch(ip, files, method)
    \/ \E s \in Slots : BatchStart(s)
    \/ \E s \in Slots : BatchFile(s)
    \/ \E s \in Slots : Finish(s)
    \/ \E path \in bg_tasks : Cleanup(path)

SpecBatch == Init /\ [][NextBatch]_vars

\* ---------------------------------------------- the backends in isolation

InitParsers ==
    /\ InitApp
    /\ document \in Documents
    /\ processed_data = NoData
    /\ llm_available = FALSE
    /\ InitClock
    /\ max_requests = 1
    /\ time_window = TimeWindow
    /\ InitLimiter
    /\ max_size = 1
    /\ InitCache

\* the manual branch of parse_cv on the document: cvparser1.parse_cv_file,
\* then process_manual_parser_result
ParseManual ==
    /\ processed_data' =
           [method |-> "manual",
            data |-> process_manual_parser_result(parse_cv_text(document, now))]
    /\ UNCHANGED <<document, clockVars, rlVars, cacheVars, lifeVars,
                   counterVars, arrived, inflight, storeVars, bg_tasks>>

\* the auto branch of parse_cv on the document:
\* cvparser.process_resume_with_timing, then process_llm_parser_result
ParseAuto ==
    /\ processed_data' =
           [method |-> "auto",
            data |-> process_llm_parser_result(CompleteResume(document),
                                               TimingInfo, now)]
    /\ UNCHANGED <<document, clockVars, rlVars, cacheVars, lifeVars,
                   counterVars, arrived, inflight, storeVars, bg_tasks>>

NextParsers == ParseManual \/ ParseAuto

SpecParsers == InitParsers /\ [][NextParsers]_vars

\* The handlers are coroutines of one event loop: a request gives way to
\* another only where its coroutine awaits something that suspends it, which
\* is call_next in the middleware and file.seek in the loop of
\* parse_cv_batch.  is_allowed, FileCache.get and FileCache.set contain no
\* await, and neither does parse_cv.

\* the file lists of the batch requests that are handled concurrently: the
\* same document under two names, and another document
ConcBatches == {<<ValidA, ValidB>>, <<ValidC>>}

\* the uuid4 values of the files of these requests
ConcRands == {"u1"}

\* the parser extracts the data of a file of these requests or fails
ConcEnvs == {Env(TRUE, "ok", "cvA", TRUE, FALSE),
             Env(TRUE, "fail", None, TRUE, FALSE)}

InitConc ==
    /\ InitAppWith(1..MaxConcurrent)
    /\ InitParsed
    /\ llm_available = FALSE
    /\ InitClock
    /\ max_requests = MaxRequests
    /\ time_window = TimeWindow
    /\ InitLimiter
    /\ max_size \in 1..MaxAppSize
    /\ InitCache

\* the service handling up to MaxConcurrent batch requests at a time
NextConc ==
    \/ Startup
    \/ AppTick
    \/ \E ip \in Clients, files \in ConcBatches :
          ArriveWithin(ip, [Idle EXCEPT !.kind = "batch", !.stage = "handler",
                                       !.files = files, !.method = "manual",
                                       !.save_result = TRUE], MaxConcReqs)
    \/ \E s \in DOMAIN inflight : BatchStart(s)
    \/ \E s \in DOMAIN inflight : LoopStep(s, ConcRands, ConcEnvs, {TRUE})
    \/ \E s \in DOMAIN inflight : Finish(s)
    \/ \E path \in bg_tasks : Cleanup(path)

SpecConc == InitConc /\ [][NextConc]_vars

\* ------------------------------------------------------ the exempt paths

\* skip_paths of rate_limit_middleware
skip_paths == {"/health", "/", "/docs", "/redoc", "/openapi.json", "/favicon.ico"}

\* the paths among them that the application has a route for: root and
\* health_check, and the documentation routes FastAPI adds by default
Routed == {"/health", "/", "/docs", "/redoc", "/openapi.json"}

\* the body health_check returns
health_check ==
    [status |-> IF is_healthy THEN "healthy" ELSE "unhealthy",
     llm_available |-> llm_available,
     statistics |-> [total_requests |-> total_requests,
                     successful_requests |-> successful_requests,
                     failed_requests |-> failed_requests,
                     cache_size |-> Cardinality(DOMAIN cache)]]

\* what the application answers on an exempt path
ExemptResponse(path) ==
    IF path \notin Routed
    THEN [status |-> 404, error_code |-> None, request_id |-> NoId,
          body |-> [status |-> "Not Found"]]
    ELSE [status |-> 200, error_code |-> None, request_id |-> NoId,
          body |-> IF path = "/health" THEN health_check
                   ELSE [status |-> "running"]]

\* the middleware putting the request on an exempt path through the
\* admission check and the counters like any other request
ArriveExempt_limited(ip, path) ==
    ArriveWithin(ip, [Idle EXCEPT !.kind = "exempt", !.stage = "passed",
                                 !.path = path], MaxConcReqs + 1)

\* rate_limit_middleware up to call_next for a request on one of skip_paths:
\* neither is_allowed nor a counter is touched
ArriveExempt(ip, path) ==
    /\ is_healthy
    /\ FreeSlots # {}
    /\ LET s == CHOOSE x \in FreeSlots : \A y \in FreeSlots : x <= y
       IN  inflight' = [inflight EXCEPT ![s] =
                           [Idle EXCEPT !.kind = "exempt", !.stage = "passed",
                                        !.ip = ip, !.path = path]]
    /\ UNCHANGED <<clockVars, rlVars, cacheVars, lifeVars, counterVars,
                   arrived, storeVars, bg_tasks, parserVars>>

\* the route of the exempt path answers the request in slot s
HandleExempt(s) ==
    /\ inflight[s].kind = "exempt"
    /\ inflight[s].stage = "passed"
    /\ inflight' = [inflight EXCEPT ![s].stage = "served",
                                    ![s].resp = ExemptResponse(inflight[s].path)]
    /\ UNCHANGED <<clockVars, rlVars, cacheVars, lifeVars, counterVars,
                   arrived, storeVars, bg_tasks, parserVars>>

\* the middleware returns the response of call_next as it is
ReturnExempt(s) ==
    /\ inflight[s].kind = "exempt"
    /\ inflight[s].stage = "served"
    /\ inflight' = [inflight EXCEPT ![s] = Idle]
    /\ UNCHANGED <<clockVars, rlVars, cacheVars, lifeVars, counterVars,
                   arrived, storeVars, bg_tasks, parserVars>>

\* the service receiving parse requests, which the middleware checks and
\* counts, and requests on the exempt paths
NextExempt ==
    \/ Startup
    \/ AppTick
    \/ \E ip \in Clients :
          ArriveWithin(ip, [Idle EXCEPT !.kind = "parse", !.stage = "handler",
                                       !.files = <<ValidA>>, !.method = "manual",
                                       !.save_result = FALSE], MaxConcReqs)
    \/ \E s \in DOMAIN inflight : HandleParse(s)
    \/ \E s \in DOMAIN inflight : Finish(s)
    \/ \E ip \in Clients, path \in skip_paths : ArriveExempt(ip, path)
    \/ \E s \in DOMAIN inflight : HandleExempt(s)
    \/ \E s \in DOMAIN inflight : ReturnExempt(s)

SpecExempt == InitConc /\ [][NextExempt]_vars

\* ------------------------------------------------------------ properties

\* number of recorded admissions of ip that are not older than limit
AdmittedSince(ip, limit) ==
    Cardinality({i \in DOMAIN admitted[ip] : admitted[ip][i] >= limit})

\* C2: once max_requests calls of one identity were admitted within the last
\* time_window seconds, the next call of that identity is denied.
C2_NextDenied ==
    [][\A ip \in Identities :
          (IsAllowed(ip) /\ AdmittedSince(ip, now - time_window) >= max_requests)
              => ~rl_ret'.allowed]_vars

\* a call was denied by the limit test while max_requests admissions of the
\* identity lie within the window, and the block was set by that call
C2_Witness ==
    /\ rl_ret.ip # None
    /\ ~rl_ret.allowed
    /\ rl_ret.path = "open"
    /\ AdmittedSince(rl_ret.ip, now - time_window) = max_requests
    /\ max_requests = MaxRequests
    /\ rl_ret.ip \in DOMAIN blocked_ips
    /\ blocked_ips[rl_ret.ip] = now + BlockDuration

\* C3: a call of a blocked identity made once BlockDuration seconds have
\* passed since the block was set is admitted, and it is the one request
\* then counted in the identity's window.
C3_AdmittedAfterBlock ==
    [][\A ip \in Identities :
          (IsAllowed(ip) /\ ip \in DOMAIN blocked_ips /\ now >= blocked_ips[ip])
              => /\ rl_ret'.allowed
                 /\ requests'[ip] = <<now>>
                 /\ ip \notin DOMAIN blocked_ips']_vars

\* a call found an expired block entry and was admitted
C3_Witness ==
    /\ rl_ret.ip # None
    /\ rl_ret.path = "expired"
    /\ rl_ret.allowed
    /\ requests[rl_ret.ip] = <<now>>

\* C4: a call of an identity whose block lies in the future is denied and
\* changes neither the identity's window nor its block.
C4_BlockedFrame ==
    [][\A ip \in Identities :
          (IsAllowed(ip) /\ ip \in DOMAIN blocked_ips /\ now < blocked_ips[ip])
              => /\ ~rl_ret'.allowed
                 /\ requests' = requests
                 /\ blocked_ips' = blocked_ips]_vars

\* a blocked identity was denied although cleaning would have emptied its
\* window
C4_Witness ==
    /\ rl_ret.ip # None
    /\ rl_ret.path = "blocked"
    /\ ~rl_ret.allowed
    /\ requests[rl_ret.ip] # <<>>
    /\ CleanOld(requests[rl_ret.ip], now - time_window) = <<>>
    /\ now < blocked_ips[rl_ret.ip]

\* C5: the cache never holds more than max_size entries.
C5_SizeBound == Cardinality(DOMAIN cache) <= max_size

\* a set evicted an entry and left the cache exactly full
C5_Witness ==
    /\ cache_op.op = "set"
    /\ cache_op.evicted # None
    /\ max_size = MaxSize
    /\ Cardinality(DOMAIN cache) = max_size

\* C6: a set of an absent hash into a full cache removes exactly one entry,
\* one whose access time is the oldest; and when a get has hit an entry and
\* no set came since, that entry is not the one removed (two or more
\* entries).
C6_EvictsOldestSparesRefreshed ==
    [][\A h \in Hashes, res \in CachedValues :
          (Set(h, res) /\ h \notin DOMAIN cache /\ CacheFull(cache, max_size))
              => /\ \E v \in DOMAIN cache :
                        /\ DOMAIN cache' = ((DOMAIN cache) \ {v}) \cup {h}
                        /\ \A k \in DOMAIN cache :
                              AtTime(access_times, k) >= AtTime(access_times, v)
                 /\ (cache_op.refreshed # None /\ Cardinality(DOMAIN cache) >= 2)
                        => cache_op'.evicted # cache_op.refreshed]_vars

\* C7: a set of a present hash stores the new result and the current time
\* under it, and repeating the same set leaves the cache contents as they
\* were after the first.
C7_IdempotentUpsert ==
    [][\A h \in Hashes, res \in CachedValues :
          (Set(h, res) /\ h \in DOMAIN cache)
              => /\ cache'[h] = res
                 /\ AtTime(access_times', h) = now
                 /\ (/\ cache_op.op = "set"
                     /\ cache_op.present
                     /\ cache_op.hash = h
                     /\ cache_op.result = res)
                        => cache' = cache]_vars

\* ------------------------------------------- properties of the service

\* the pre-lookup checks of parse_cv pass for the upload
Accepted(file) ==
    /\ validate_file_type(file.filename)
    /\ 0 < FileSize(file.content)
    /\ FileSize(file.content) <= MaxFileSize

\* the request in slot s takes the step
StepOf(s) == inflight[s] # Idle /\ inflight'[s] # inflight[s]

\* nothing is parsed, cached, persisted or stored in the temp directory
NothingProcessed ==
    UNCHANGED <<cache, access_times, heap, first, results_dir, temp_files,
                backend_calls>>

\* the batch request in slot s is rejected with one of the error codes
RejectedWith(s, codes) ==
    /\ inflight'[s].stage = "post"
    /\ inflight'[s].resp.status = 400
    /\ inflight'[s].resp.error_code \in codes
    /\ inflight'[s].results = <<>>
    /\ inflight'[s].tasks = {}

C8_OversizeRejected ==
    [][\A s \in Slots :
          (/\ inflight[s].kind = "batch"
           /\ Len(inflight[s].files) > MaxBatch
           /\ StepOf(s))
          => /\ NothingProcessed
             /\ inflight[s].stage = "handler"
                   => RejectedWith(s, {"BATCH_SIZE_EXCEEDED"})]_vars

\* six files are rejected while the cache holds an earlier result
C8_Witness ==
    \E s \in Slots :
        /\ inflight[s].kind = "batch"
        /\ inflight[s].stage = "post"
        /\ Len(inflight[s].files) = MaxBatch + 1
        /\ inflight[s].resp.error_code = "BATCH_SIZE_EXCEEDED"
        /\ DOMAIN cache # {}
        /\ backend_calls = 1

\* some file of the batch has no filename or an unsupported extension
HasInvalid(files) ==
    \E k \in DOMAIN files : ~validate_file_type(files[k].filename)

\* C9: a batch of at most 5 files, one of which has an empty filename or an
\* unsupported extension, is rejected with 400 (MISSING_FILENAME or
\* INVALID_FILE_TYPE) by the first step its handler takes, and no step of
\* the request parses, caches or persists any of its files, the valid ones
\* before the invalid one included.
C9_AllOrNothing ==
    [][\A s \in Slots :
          (/\ inflight[s].kind = "batch"
           /\ Len(inflight[s].files) <= MaxBatch
           /\ HasInvalid(inflight[s].files)
           /\ StepOf(s))
          => /\ NothingProcessed
             /\ inflight[s].stage = "handler"
                   => RejectedWith(s, {"MISSING_FILENAME", "INVALID_FILE_TYPE"})]_vars

\* a valid file followed by an unsupported one: the batch is rejected and
\* the valid file is in neither the cache nor the Results directory
C9_Witness ==
    \E s \in Slots :
        /\ inflight[s].kind = "batch"
        /\ inflight[s].stage = "post"
        /\ inflight[s].files = <<ValidA, BadType>>
        /\ inflight[s].resp.status = 400
        /\ inflight[s].resp.error_code = "INVALID_FILE_TYPE"
        /\ DOMAIN cache = {}
        /\ DOMAIN results_dir = {}
        /\ backend_calls = 0

\* the batch holds 3 valid files and 2 files with unsupported extensions
ThreeValidTwoUnsupported(files) ==
    /\ Len(files) = 5
    /\ Cardinality({k \in DOMAIN files : validate_file_type(files[k].filename)}) = 3
    /\ \A k \in DOMAIN files : files[k].filename # NoName

\* C10 as stated: the response to a batch of 3 valid and 2 unsupported files
\* is the per-file summary, with an error entry for each unsupported file, a
\* processed entry for each valid one, and successful + failed = 5.
C10_PartialProcessing ==
    \A s \in Slots :
        (/\ inflight[s].kind = "batch"
         /\ inflight[s].stage = "post"
         /\ ThreeValidTwoUnsupported(inflight[s].files))
        => /\ inflight[s].resp.status = 200
           /\ Len(inflight[s].resp.results) = 5
           /\ \A k \in 1..5 :
                 ~validate_file_type(inflight[s].files[k].filename)
                    => inflight[s].resp.results[k].error_code = "INVALID_FILE_TYPE"
           /\ inflight[s].resp.summary.successful
                 + inflight[s].resp.summary.failed = 5

\* C10, amended: the response to a batch of 3 valid and 2 unsupported files
\* is 400 INVALID_FILE_TYPE for the batch as a whole, without a per-file
\* summary; the backend is called for none of the five files and none of
\* them is cached or persisted.
C10_WholeBatchRejected ==
    [][\A s \in Slots :
          (/\ inflight[s].kind = "batch"
           /\ ThreeValidTwoUnsupported(inflight[s].files)
           /\ StepOf(s))
          => /\ backend_calls' = backend_calls
             /\ cache' = cache
             /\ results_dir' = results_dir
             /\ inflight'[s].successful = 0
             /\ inflight'[s].failed = 0
             /\ inflight[s].stage = "handler"
                   => /\ inflight'[s].stage = "post"
                      /\ inflight'[s].resp = Failure(400, "INVALID_FILE_TYPE",
                                                     inflight'[s].rid)]_vars

\* the three valid files come first and the batch is still rejected, after
\* an earlier batch was processed
C10_Witness ==
    \E s \in Slots :
        /\ inflight[s].kind = "batch"
        /\ inflight[s].stage = "post"
        /\ inflight[s].files = <<ValidA, ValidB, ValidC, BadType, BadType>>
        /\ inflight[s].resp.status = 400
        /\ inflight[s].resp.error_code = "INVALID_FILE_TYPE"
        /\ backend_calls = 1
        /\ get_file_hash("doc2") \notin DOMAIN cache

\* the batch passes the checks that precede the processing loop
PassesValidation(files) == Len(files) <= MaxBatch /\ ~HasInvalid(files)

\* number of entries of results with the status
CountStatus(results, status) ==
    Cardinality({k \in DOMAIN results : results[k].status = status})

\* C11: the response to a batch that passes validation is a 200 that holds
\* one outcome record per input file, in order, each with status success or
\* error, and its summary counts them: successful + failed = total_files.
C11_OneRecordPerFile ==
    \A s \in Slots :
        (/\ inflight[s].kind = "batch"
         /\ inflight[s].stage = "post"
         /\ PassesValidation(inflight[s].files))
        => LET resp == inflight[s].resp
               files == inflight[s].files
           IN  /\ resp.status = 200
               /\ Len(resp.results) = Len(files)
               /\ \A k \in DOMAIN files :
                     /\ resp.results[k].filename = files[k].filename
                     /\ resp.results[k].status \in {"success", "error"}
               /\ resp.summary.total_files = Len(files)
               /\ resp.summary.successful = CountStatus(resp.results, "success")
               /\ resp.summary.failed = CountStatus(resp.results, "error")
               /\ resp.summary.successful + resp.summary.failed
                     = resp.summary.total_files

\* a batch of two files, one parsed and one failed
C11_Witness ==
    \E s \in Slots :
        /\ inflight[s].kind = "batch"
        /\ inflight[s].stage = "post"
        /\ inflight[s].files = <<ValidA, ValidB>>
        /\ inflight[s].resp.status = 200
        /\ inflight[s].resp.summary.successful = 1
        /\ inflight[s].resp.summary.failed = 1

\* C12: every iteration of the processing loop appends the record of its
\* file; when the file failed, with an HTTPException of parse_cv or with an
\* unexpected error, the record is an error record with an error code, the
\* loop goes on to the next file (or to the 200 response after the last),
\* the records of the earlier files are kept, and the cache and the
\* metadata it shares, which decide the outcome of the later files, are as
\* they were before the failing file.
C12_FailureIsolated ==
    [][\A s \in Slots :
          (/\ inflight[s].kind = "batch"
           /\ inflight[s].stage = "loop"
           /\ StepOf(s))
          => LET i == inflight[s].i
                 n == Len(inflight[s].files)
                 after == inflight'[s]
             IN  /\ Len(after.results) = i
                 /\ after.results[i].filename = inflight[s].files[i].filename
                 /\ SubSeq(after.results, 1, i - 1) = inflight[s].results
                 /\ after.results[i].status = "error"
                       => /\ after.results[i].error_code # None
                          /\ after.failed = inflight[s].failed + 1
                          /\ UNCHANGED <<cache, access_times, heap, first, results_dir>>
                          /\ IF i < n
                             THEN after.stage = "loop" /\ after.i = i + 1
                             ELSE after.stage = "post" /\ after.resp.status = 200]_vars

\* the first file of a batch failed in the parser and the second was parsed
C12_Witness ==
    \E s \in Slots :
        /\ inflight[s].kind = "batch"
        /\ inflight[s].stage = "post"
        /\ inflight[s].files = <<ValidA, ValidB>>
        /\ inflight[s].resp.status = 200
        /\ inflight[s].resp.results[1].status = "error"
        /\ inflight[s].resp.results[1].error_code \in
              {"MANUAL_PARSING_FAILED", "LLM_PARSING_FAILED", "INTERNAL_SERVER_ERROR"}
        /\ inflight[s].resp.results[2].status = "success"
        /\ ~inflight[s].resp.results[2].cached

\* the handler of the single-file request in slot s returns or raises
Handled(s) ==
    /\ inflight[s].kind = "parse"
    /\ inflight[s].stage = "handler"
    /\ inflight'[s].stage = "post"

\* C13: an accepted request with method auto handled while llm_available is
\* false ends with 503 LLM_UNAVAILABLE, and no request with method auto
\* handled then ends with a success.
C13_UnavailableNeverSucceeds ==
    [][\A s \in Slots :
          (/\ Handled(s)
           /\ inflight[s].method = "auto"
           /\ ~llm_available)
          => /\ inflight'[s].resp.status # 200
             /\ (/\ Accepted(inflight[s].files[1])
                 /\ inflight'[s].resp.error_code # "FILE_SAVE_ERROR")
                => /\ inflight'[s].resp.status = 503
                   /\ inflight'[s].resp.error_code = "LLM_UNAVAILABLE"]_vars

\* C14: when the selected parser fails on the file of an accepted request,
\* by an exception that leaves it or by a failing call of the language
\* model, the request ends with 500 and the error code of its method and
\* not with a success.
C14_BackendFailureSurfaces ==
    [][\A s \in Slots :
          (/\ Handled(s)
           /\ inflight'[s].ran \in {"fail", "model_error"})
          => /\ inflight'[s].resp.status = 500
             /\ inflight'[s].resp.error_code = ParsingFailed(inflight[s].method)]_vars

\* the request creates no cache entry and no persisted record and does not
\* invoke the extraction
NothingExtracted ==
    UNCHANGED <<cache, access_times, heap, first, results_dir, backend_calls>>

\* C15 as stated: when the decoder yields no text the request fails with an
\* error of its own, distinct from the error of a failing backend; the
\* extraction is not invoked and nothing is cached or persisted.
C15_DistinctEmptyExtraction ==
    [][\A s \in Slots :
          (Handled(s) /\ inflight'[s].ran = "no_text")
          => /\ inflight'[s].resp.status >= 400
             /\ inflight'[s].resp.error_code
                   \notin {"MANUAL_PARSING_FAILED", "LLM_PARSING_FAILED"}
             /\ NothingExtracted]_vars

\* C15, amended: when the decoder yields no text the request fails with 500
\* and the parsing-failed code of its method (MANUAL_PARSING_FAILED or
\* LLM_PARSING_FAILED, the code a failing backend gives as well); the
\* extraction is not invoked and nothing is cached or persisted.
C15_EmptyTextFails ==
    [][\A s \in Slots :
          (Handled(s) /\ inflight'[s].ran = "no_text")
          => /\ inflight'[s].resp
                   = Failure(500, ParsingFailed(inflight[s].method), inflight'[s].rid)
             /\ NothingExtracted]_vars

\* a request with method auto whose file decodes to no text, after an
\* earlier request was parsed and cached
C15_Witness ==
    \E s \in Slots :
        /\ inflight[s].kind = "parse"
        /\ inflight[s].stage = "post"
        /\ inflight[s].ran = "no_text"
        /\ inflight[s].method = "auto"
        /\ inflight[s].resp.error_code = "LLM_PARSING_FAILED"
        /\ backend_calls = 1
        /\ Cardinality(DOMAIN cache) = 1

\* C20: a single-file request is rejected with 400 when its file type is
\* unsupported or, the type being supported and the upload saved, when the
\* file has 0 bytes, and with 413 when it has more than 10 MB; a file of
\* exactly 10 MB gets neither; a request rejected by one of the three checks
\* does not look up the cache, call a backend, store in the cache or persist.
C20_InputChecks ==
    [][\A s \in Slots :
          Handled(s)
          => LET file == inflight[s].files[1]
                 size == FileSize(file.content)
                 resp == inflight'[s].resp
                 saved == resp.error_code # "FILE_SAVE_ERROR"
             IN  /\ ~validate_file_type(file.filename)
                      => resp.status = 400 /\ resp.error_code = "INVALID_FILE_TYPE"
                 /\ (validate_file_type(file.filename) /\ saved /\ size = 0)
                      => resp.status = 400 /\ resp.error_code = "EMPTY_FILE"
                 /\ (validate_file_type(file.filename) /\ saved /\ size > MaxFileSize)
                      => resp.status = 413 /\ resp.error_code = "FILE_TOO_LARGE"
                 /\ size = MaxFileSize
                      => resp.error_code \notin {"EMPTY_FILE", "FILE_TOO_LARGE"}
                 /\ resp.error_code \in {"INVALID_FILE_TYPE", "EMPTY_FILE", "FILE_TOO_LARGE"}
                      => NothingExtracted]_vars

\* a file of exactly 10 MB was parsed, and a file one byte larger is
\* rejected while the cache holds the result of the first
C20_Witness ==
    \E s \in Slots :
        /\ inflight[s].kind = "parse"
        /\ inflight[s].stage = "post"
        /\ FileSize(inflight[s].files[1].content) = MaxFileSize + 1
        /\ inflight[s].resp.status = 413
        /\ get_file_hash("atlimit") \in DOMAIN cache
        /\ backend_calls = 1

\* C19: every file in the temp directory has its cleanup ahead of it: the
\* request that wrote it is still being handled, or the cleanup task is
\* scheduled to run; so no exit path leaves a temp file behind.
C19_CleanupScheduled ==
    \A path \in temp_files :
        \/ path \in bg_tasks
        \/ \E s \in Slots : path \in inflight[s].tasks

\* the request ids under which a record is in the Results directory
PersistedIds(dir) == {dir[path].request_id : path \in DOMAIN dir}

\* C16: a record persisted under a request id is what retrieval by that id
\* returns, and it stays so whatever is persisted afterwards: when a step
\* writes a record, get_result for its request id can only return that
\* record, and when get_result for an id can only return one record, it
\* can only return the same record after any step.
C16_PersistThenRetrieve ==
    [][/\ \A path \in DOMAIN results_dir' :
             (path \notin DOMAIN results_dir
                 \/ results_dir'[path] # results_dir[path])
             => LET record == results_dir'[path]
                IN  get_result(results_dir', record.request_id)
                       = {Found(record.request_id, record)}
       /\ \A path \in DOMAIN results_dir :
             LET record == results_dir[path]
                 request_id == record.request_id
             IN  get_result(results_dir, request_id) = {Found(request_id, record)}
                    => get_result(results_dir', request_id)
                          = {Found(request_id, record)}]_vars

\* C17: get_result returns a record only for a request id under which a
\* record was persisted, and the record it returns has that request id; for
\* an id under which nothing was persisted, a proper prefix of a persisted
\* id included, it answers 404.
C17_ExactIdOnly ==
    [][\A s \in Slots :
          (/\ inflight[s].kind = "result"
           /\ inflight[s].stage = "handler"
           /\ inflight'[s].stage = "post")
          => LET request_id == inflight[s].rid
                 resp == inflight'[s].resp
             IN  /\ resp.status = 200
                    => /\ request_id \in PersistedIds(results_dir)
                       /\ resp.data.request_id = request_id
                 /\ request_id \notin PersistedIds(results_dir)
                    => resp.status = 404]_vars

\* the request ids in seq are pairwise distinct
Distinct(seq) ==
    \A j, k \in DOMAIN seq : j # k => seq[j] # seq[k]

\* the request ids of the files of a batch that were answered with success
FileIds(results) ==
    LET ok == SelectSeq(results, LAMBDA entry : entry.status = "success")
    IN  [k \in DOMAIN ok |-> ok[k].request_id]

\* C18: request ids that come from different calls of generate_request_id
\* are distinct.  Each call for a parsed file leaves its id in one metadata
\* dict of its own (a new one, or the one of the cache entry it hit), and a
\* batch request holds the id of the batch and the ids of its files: the
\* ids of the metadata dicts are pairwise distinct, and so are the id of a
\* batch and the ids of its files, also when generated in the same second.
C18_IdsDistinct ==
    /\ Distinct([k \in DOMAIN heap |-> heap[k].request_id])
    /\ \A s \in Slots :
          (inflight[s].kind = "batch" /\ inflight[s].stage \in {"loop", "post"})
          => Distinct(<<inflight[s].rid>> \o FileIds(inflight[s].results))

\* ------------------------------------------ concurrently handled requests

\* number of recorded admissions of ip in the time_window seconds from t on
AdmittedWithin(ip, t) ==
    Cardinality({j \in DOMAIN admitted[ip] :
                    admitted[ip][j] >= t /\ admitted[ip][j] <= t + time_window})

\* C21: however the steps of the requests handled concurrently interleave,
\* no identity has more than max_requests admissions within time_window
\* seconds, the cache holds at most max_size entries, and the cached keys
\* are exactly the keys that have an access time.
C21_AtomicPerKey ==
    /\ \A ip \in Identities : \A i \in DOMAIN admitted[ip] :
          AdmittedWithin(ip, admitted[ip][i]) <= max_requests
    /\ Cardinality(DOMAIN cache) <= max_size
    /\ DOMAIN cache = AtKeys(access_times)

\* between the first and the second file of one batch another request has
\* stored a different document, which evicted the entry of the first file,
\* and a further request of the identity was denied meanwhile
C21_Witness ==
    \E s, o \in DOMAIN inflight :
        /\ s # o
        /\ inflight[s].stage = "loop"
        /\ inflight[s].i = 2
        /\ inflight[s].results[1].status = "success"
        /\ inflight[o].stage = "post"
        /\ Len(inflight[o].results) = 1
        /\ inflight[o].results[1].status = "success"
        /\ inflight[s].files[1].content # inflight[o].files[1].content
        /\ DOMAIN cache = {get_file_hash(inflight[o].files[1].content)}
        /\ rl_ret.response = RateLimited
        /\ Len(admitted[rl_ret.ip]) = max_requests

\* ------------------------------------------------ the normalised results

\* the fields of a normalised result
ResultFields ==
    {"contact_information", "professional_summary", "skills", "education",
     "work_experience", "projects", "certifications", "years_of_experience",
     "ats_score", "metadata"}

ScoreOf(d) ==
    calculate_ats_score(extract_contact_info(d), extract_skills(d),
                        extract_education(d), extract_experience(d))

\* what each group of fields adds to the score of d: the score less the
\* score of d without the group
ContactPart(d) ==
    ScoreOf(d) - ScoreOf([d EXCEPT !.name = FALSE, !.email = FALSE,
                                   !.phone = FALSE, !.location = FALSE])

SkillsPart(d) == ScoreOf(d) - ScoreOf([d EXCEPT !.technical = 0, !.soft = 0])

EducationPart(d) == ScoreOf(d) - ScoreOf([d EXCEPT !.education = 0])

ExperiencePart(d) ==
    ScoreOf(d) - ScoreOf([d EXCEPT !.experience = 0, !.described = FALSE])

\* C23: the deterministic backend's ats_score is an integer from 0 to 100,
\* the sum (capped at 100) of what contact (at most 20), skills (at most
\* 30), education (20 when present) and experience (at most 30) add; a
\* result fresh from the model-backed backend has ats_score 0.
C23_AtsScore ==
    /\ processed_data.method = "manual" =>
          LET ats_score == processed_data.data.ats_score
          IN  /\ ats_score \in 0..100
              /\ ContactPart(document) \in 0..20
              /\ SkillsPart(document) \in 0..30
              /\ EducationPart(document) =
                     (IF document.education > 0 THEN 20 ELSE 0)
              /\ ExperiencePart(document) \in 0..30
              /\ ats_score = Min(ContactPart(document) + SkillsPart(document)
                                   + EducationPart(document)
                                   + ExperiencePart(document), 100)
              /\ (document = BlankDocument) => ats_score = 0
    /\ processed_data.method = "auto" => processed_data.data.ats_score = 0

\* a document that shows everything gets each group's full weight, 100 in
\* all
C23_Witness ==
    /\ processed_data.method = "manual"
    /\ processed_data.data.ats_score = 100
    /\ ContactPart(document) = 20
    /\ SkillsPart(document) = 30
    /\ EducationPart(document) = 20
    /\ ExperiencePart(document) = 30

\* ------------------------------------------------------ the startup probe

\* C24: llm_available is set by the startup alone: no request is received
\* before the startup has finished, and once it has, no step (no request of
\* either method, successful or failed) changes the flag or undoes the
\* startup.
C24_ProbedOnce ==
    [][/\ is_healthy => (is_healthy' /\ llm_available' = llm_available)
       /\ ~is_healthy => arrived' = 0]_vars

\* a request of method auto has failed in the model-backed parser, after a
\* request that succeeded, and the model still counts as available
C24_Witness ==
    \E s \in DOMAIN inflight :
        /\ inflight[s].stage = "post"
        /\ inflight[s].resp.error_code = "LLM_PARSING_FAILED"
        /\ successful_requests = 1
        /\ is_healthy
        /\ llm_available

\* ------------------------------------------------- the order of a batch

\* the batch request in slot s handles its next file
LoopStepOf(s) ==
    /\ inflight[s].kind = "batch"
    /\ inflight[s].stage = "loop"
    /\ inflight'[s] # inflight[s]

\* an earlier file of the batch in slot s has the bytes of the file now
\* handled and was parsed with success
EarlierSuccess(s) ==
    \E k \in 1..(inflight[s].i - 1) :
        /\ inflight[s].files[k].content = inflight[s].files[inflight[s].i].content
        /\ inflight[s].results[k].status = "success"

Structured(resp) ==
    /\ resp.request_id # NoId
    /\ \/ resp.status = 200 /\ resp.error_code = None
       \/ resp.status \in {400, 413, 500, 503} /\ resp.error_code # None

\* whatever failed before, a request waiting for its handler can be handled
\* and a response waiting for the middleware can be sent
Serving ==
    \A s \in DOMAIN inflight :
        /\ (inflight[s].kind = "parse" /\ inflight[s].stage = "handler")
              => ENABLED HandleParse(s)
        /\ inflight[s].stage = "post" => ENABLED Finish(s)

\* an exception that no inner try block encloses, raised while parse_cv
\* handles the request in slot s for an upload that is not in the cache,
\* becomes a 500 INTERNAL_SERVER_ERROR with the id of the request
UnexpectedConverted ==
    \A s \in DOMAIN inflight :
        (inflight[s].kind = "parse" /\ inflight[s].stage = "handler")
            => \A u \in Rands, env \in Envs :
                  (/\ env.unexpected
                   /\ Accepted(inflight[s].files[1])
                   /\ get_file_hash(inflight[s].files[1].content)
                          \notin DOMAIN cache)
                      => parse_cv(AppState({}), inflight[s].files[1],
                                  inflight[s].method, inflight[s].save_result,
                                  generate_request_id(u, now), now, env,
                                  llm_available).resp
                             = Failure(500, "INTERNAL_SERVER_ERROR",
                                       generate_request_id(u, now))

\* C26: a single-file parse request that reached its handler ends with a
\* success or with an error that carries a status, an error code and the
\* id of the request; an unexpected exception becomes 500
\* INTERNAL_SERVER_ERROR; and after a failure the service goes on handling
\* requests and sending responses.
C26_StructuredOutcome ==
    /\ [](Serving /\ UnexpectedConverted)
    /\ [][\A s \in DOMAIN inflight :
             (inflight[s].kind = "parse" /\ inflight[s].stage = "handler"
                 /\ StepOf(s))
                 => /\ inflight'[s].stage = "post"
                    /\ Structured(inflight'[s].resp)
                    /\ inflight'[s].resp.request_id \in
                           {generate_request_id(u, now) : u \in Rands}
                    /\ inflight'[s].resp.error_code = "INTERNAL_SERVER_ERROR"
                          => inflight'[s].resp.status = 500]_vars

\* after a request that failed, another request met an unexpected exception
\* and was answered with 500 INTERNAL_SERVER_ERROR and its request id
C26_Witness ==
    \E s \in DOMAIN inflight :
        /\ failed_requests = 1
        /\ inflight[s].kind = "parse"
        /\ inflight[s].stage = "post"
        /\ inflight[s].resp = Failure(500, "INTERNAL_SERVER_ERROR", inflight[s].rid)
        /\ inflight[s].rid # NoId

\* ---------------------------------------------------- denied requests

\* the middleware denies the request that arrives
Denied == arrived' = arrived + 1 /\ ~rl_ret'.allowed

\* C27: a request the admission check denies is answered by the middleware
\* itself with the 429 response, counted as failed, and handed to no
\* handler: no request is added to those in flight, no temp file is
\* written, the cache is neither read nor written, no parser runs and no
\* result is persisted.
C27_DeniedOutsideHandler ==
    [][Denied =>
          /\ rl_ret'.response = RateLimited
          /\ rl_ret'.response.status = 429
          /\ inflight' = inflight
          /\ NothingProcessed
          /\ UNCHANGED <<cache_op, bg_tasks, total_requests, successful_requests>>
          /\ failed_requests' = failed_requests + 1]_vars

\* a request was denied while the requests admitted before it were still
\* being handled
C27_Witness ==
    /\ rl_ret.response = RateLimited
    /\ ~rl_ret.allowed
    /\ arrived = total_requests + 1
    /\ failed_requests = 1
    /\ \A s \in DOMAIN inflight : inflight[s].stage = "loop"

\* ------------------------------------------- the limiter, call by call

\* the identity is blocked at the current time
Blocked(ip) == ip \in DOMAIN blocked_ips /\ now < blocked_ips[ip]

\* the timestamps of the window of ip that are not older than time_window
Recent(ip) == SelectSeq(requests[ip], LAMBDA ts : ts >= now - time_window)

\* C28: a call of an identity that is not blocked, whose window holds
\* max_requests or more timestamps not older than time_window, is denied,
\* sets the block to now + 300 and leaves now out of the window; any other
\* call of an identity that is not blocked is allowed and appends now.
C28_DenyAtLimit ==
    [][\A ip \in Identities :
          (IsAllowed(ip) /\ ~Blocked(ip))
              => IF Len(Recent(ip)) >= max_requests
                 THEN /\ ~rl_ret'.allowed
                      /\ ip \in DOMAIN blocked_ips'
                      /\ blocked_ips'[ip] = now + 300
                      /\ requests'[ip] = Recent(ip)
                 ELSE /\ rl_ret'.allowed
                      /\ requests'[ip] = Append(Recent(ip), now)
                      /\ ip \notin DOMAIN blocked_ips']_vars

\* a call made after the latest admission, with the window still full, was
\* denied and set the block, and the window does not hold its time
C28_Witness ==
    /\ rl_ret.ip # None
    /\ rl_ret.path = "open"
    /\ ~rl_ret.allowed
    /\ Len(requests[rl_ret.ip]) = max_requests
    /\ \A i \in DOMAIN requests[rl_ret.ip] : requests[rl_ret.ip][i] < now
    /\ blocked_ips[rl_ret.ip] = now + 300

\* C29: the block entry of an identity goes or changes only in an
\* is_allowed call of that identity made at a time not before the time
\* stored in it, and such a call removes it, also when made exactly at that
\* time; ticks of the clock and calls of other identities leave it.
C29_LazyExpiry ==
    [][\A ip \in DOMAIN blocked_ips :
          /\ (ip \notin DOMAIN blocked_ips' \/ blocked_ips'[ip] # blocked_ips[ip])
                => (IsAllowed(ip) /\ now >= blocked_ips[ip])
          /\ (IsAllowed(ip) /\ now >= blocked_ips[ip])
                => (ip \notin DOMAIN blocked_ips' /\ rl_ret'.allowed)]_vars

\* the block of one identity has run out exactly now, another identity has
\* called since, and the entry is still there
C29_Witness ==
    \E ip \in DOMAIN blocked_ips :
        /\ now = blocked_ips[ip]
        /\ rl_ret.ip \notin {None, ip}
        /\ rl_ret.allowed

\* the window of ip is in chronological order
Chronological(ip) ==
    \A i, j \in DOMAIN requests[ip] : i < j => requests[ip][i] <= requests[ip][j]

\* C30: every window is in chronological order and holds at most
\* max_requests timestamps; after a call that passed the block test the
\* window of the caller holds no timestamp older than now - time_window,
\* and every timestamp it held that is not older, the one exactly
\* time_window old included, is still in it.
C30_WindowInvariant ==
    /\ [](\A ip \in Identities :
             Chronological(ip) /\ Len(requests[ip]) <= max_requests)
    /\ [][\A ip \in Identities :
             (IsAllowed(ip) /\ ~Blocked(ip))
                 => /\ \A i \in DOMAIN requests'[ip] :
                          requests'[ip][i] >= now - time_window
                    /\ \A i \in DOMAIN requests[ip] :
                          requests[ip][i] >= now - time_window
                              => \E j \in DOMAIN requests'[ip] :
                                    requests'[ip][j] = requests[ip][i]]_vars

\* a call was admitted exactly time_window seconds after the admission before
\* it, whose timestamp is still in the window
C30_Witness ==
    /\ rl_ret.ip # None
    /\ rl_ret.allowed
    /\ time_window > 0
    /\ requests[rl_ret.ip] = <<now - time_window, now>>

\* --------------------------------------------------- the cache and parse_cv

\* the request in slot s is answered from the cache
AnsweredFromCache(s) ==
    /\ Handled(s)
    /\ inflight'[s].resp.status = 200
    /\ inflight'[s].resp.metadata.cached

\* C31: the metadata of every successful response of parse_cv, a response
\* from the cache included, names the method the request selected.
C31_MethodEchoed ==
    [][\A s \in Slots :
          (Handled(s) /\ inflight'[s].resp.status = 200)
              => inflight'[s].resp.metadata.processing_method
                     = inflight[s].method]_vars

\* C32: a request that ends in an error leaves the cache as it was, and so
\* does a request whose parser failed, by an exception, by finding no text
\* or by a failing call of the language model.
C32_OnlySuccessCached ==
    [][\A s \in Slots :
          (/\ Handled(s)
           /\ \/ inflight'[s].resp.status # 200
              \/ inflight'[s].ran \in {"fail", "no_text", "model_error"})
              => cache' = cache /\ heap' = heap]_vars

\* C33: a request answered from the cache leaves every stored result as it
\* was, the metadata dict stored with it included; at most the access time
\* of the entry changes.
C33_HitKeepsEntry ==
    [][\A s \in Slots :
          AnsweredFromCache(s)
              => /\ cache' = cache
                 /\ heap' = heap
                 /\ AtDel(access_times', get_file_hash(inflight[s].files[1].content))
                        = AtDel(access_times, get_file_hash(inflight[s].files[1].content))]_vars

\* C34: FileCache.set for a digest that is in the cache leaves the set of
\* cached digests as it was.
C34_UpsertKeepsOthers ==
    [][(\E h \in Hashes, res \in CachedValues : h \in DOMAIN cache /\ Set(h, res))
          => DOMAIN cache' = DOMAIN cache]_vars

\* ------------------------------------------------- persisted successes

\* get_result answers the request id with a record, whichever file it loads
Retrievable(dir, request_id) ==
    \A resp \in get_result(dir, request_id) : resp.status = 200

FreshPersisted ==
    \A s \in Slots :
        (/\ inflight[s].kind = "parse"
         /\ inflight[s].stage = "handler"
         /\ inflight[s].save_result)
            => \A u \in Rands, env \in Envs :
                  LET r == parse_cv(AppState({}), inflight[s].files[1],
                                    inflight[s].method, TRUE,
                                    generate_request_id(u, now), now, env,
                                    llm_available)
                  IN  (/\ env.persist_ok
                       /\ r.resp.status = 200
                       /\ ~r.resp.metadata.cached)
                          => Retrievable(r.st.results_dir,
                                         generate_request_id(u, now))

C36_HitIdsAgree ==
    [][\A s \in Slots :
          (/\ inflight[s].kind = "batch"
           /\ inflight[s].stage = "loop"
           /\ inflight'[s].stage = "post")
              => \A k \in DOMAIN inflight'[s].resp.results :
                    LET entry == inflight'[s].resp.results[k]
                    IN  (entry.status = "success" /\ entry.cached)
                            => entry.data_meta.request_id = entry.request_id]_vars

\* ------------------------------------------------------- the counters

\* no request is between the middleware's admission and its counting
NoneInFlight == \A s \in DOMAIN inflight : inflight[s] = Idle

\* C37: successful_requests never exceeds total_requests, and while no
\* request is in flight successful_requests + failed_requests equals
\* total_requests.
C37_CountersAddUp ==
    /\ successful_requests <= total_requests
    /\ NoneInFlight => successful_requests + failed_requests = total_requests

\* ------------------------------------------- the identities of the limiter

\* the block entry of ip, or the absence of one
BlockOf(blocked, ip) == IF ip \in DOMAIN blocked THEN <<blocked[ip]>> ELSE <<>>

\* C38: an is_allowed call of one identity leaves the window and the block
\* entry of every other identity as they were, and its verdict is decided
\* by the caller's own block entry, the caller's own window and the clock.
C38_IdentitiesIndependent ==
    [][\A ip \in Identities :
          IsAllowed(ip)
              => /\ \A other \in Identities \ {ip} :
                       /\ requests'[other] = requests[other]
                       /\ BlockOf(blocked_ips', other) = BlockOf(blocked_ips, other)
                 /\ rl_ret'.allowed
                       = (~Blocked(ip) /\ Len(Recent(ip)) < max_requests)]_vars

\* one identity is blocked with a full window, and the other, with an empty
\* window and no block, has just been admitted
C38_Witness ==
    \E ip \in Identities :
        /\ rl_ret.ip \notin {None, ip}
        /\ rl_ret.allowed
        /\ requests[rl_ret.ip] = <<now>>
        /\ Blocked(ip)
        /\ Len(requests[ip]) = max_requests
        /\ rl_ret.ip \notin DOMAIN blocked_ips

\* ----------------------------------------------- requests on exempt paths

\* the request on an exempt path in slot s takes the step
ExemptStep(s) ==
    /\ inflight'[s] # inflight[s]
    /\ inflight[s].kind = "exempt" \/ inflight'[s].kind = "exempt"

\* a request on any exempt path of any client can be taken in whenever the
\* service has started and can take a request, and one that was passed on
\* can be answered and returned
ExemptServed ==
    /\ (is_healthy /\ FreeSlots # {})
          => \A ip \in Clients, path \in skip_paths : ENABLED ArriveExempt(ip, path)
    /\ \A s \in DOMAIN inflight :
          /\ (inflight[s].kind = "exempt" /\ inflight[s].stage = "passed")
                => ENABLED HandleExempt(s)
          /\ (inflight[s].kind = "exempt" /\ inflight[s].stage = "served")
                => /\ ENABLED ReturnExempt(s)
                   /\ inflight[s].resp.status # 429
                   /\ inflight[s].path \in Routed => inflight[s].resp.status = 200

\* C39: a request on one of the exempt paths is passed to the application
\* and answered by it whatever the limiter holds for its client, and no
\* step of it changes a window, a block entry, the verdict of the limiter
\* or a request counter.
C39_ExemptUntouched ==
    /\ []ExemptServed
    /\ [][\A s \in DOMAIN inflight :
             ExemptStep(s)
                 => UNCHANGED <<requests, blocked_ips, rl_ret, admitted,
                                total_requests, successful_requests,
                                failed_requests>>]_vars

\* the client is blocked, its last request was denied, and its request for
\* /health has been answered with the counters as they are
C39_Witness ==
    \E s \in DOMAIN inflight :
        /\ inflight[s].kind = "exempt"
        /\ inflight[s].stage = "served"
        /\ inflight[s].path = "/health"
        /\ inflight[s].resp.status = 200
        /\ inflight[s].resp.body.statistics.failed_requests = failed_requests
        /\ failed_requests > 0
        /\ ~rl_ret.allowed
        /\ Blocked(inflight[s].ip)

====
